---- MODULE Spec2Model ----
(***************************************************************************)
(* The operator's main(): the startup path from client construction to     *)
(* mgr.Start, and the termination goroutine that runs beside it.           *)
(*                                                                         *)
(* Two threads share the state: the main path (pc) and the termination     *)
(* goroutine (wpc).  The environment delivers the termination signal,      *)
(* makes this instance the active one, and creates / deletes / removes     *)
(* the Installation resource.  Time is measured by two relative clocks,    *)
(* in seconds: slept (since the current time.Sleep began) and waited       *)
(* (since time.After(to) was armed).                                       *)
(***************************************************************************)
EXTENDS Integers, Sequences, FiniteSets, TLC

VARIABLES
    pc,                 \* the main path's position (the call it is at)
    exited,             \* the process has ended
    exitCode,           \* its exit status, -1 while it runs
    bootstrapCRDs,      \* --bootstrap-crds
    manageCRDs,         \* --manage-crds
    sgSetup,            \* --aws-sg-setup
    preDelete,          \* --pre-delete
    operatorNamespace,  \* common.OperatorNamespace(), "unread" until first read
    active,             \* this instance is the active operator
    sig,                \* sigHandler.Done() is closed
    installation,       \* the default Installation in the cluster
    ctxCancelled,       \* cancel() was called on ctx
    wpc,                \* the termination goroutine's position
    retries,            \* its retries counter
    qres,               \* err / instance of the client.Get being handled
    slept,              \* seconds since the current time.Sleep began
    waited,             \* seconds since time.After(to) was armed
    log,                \* messages the termination goroutine has logged
                        \* (the per-query error lines show as qres = "Error")
    calls,              \* startup steps the main path has executed
    errs,               \* startup steps that returned an error
    crds,               \* crds.Ensure succeeded
    bootConfig,         \* the bootstrap ConfigMap as loaded
    registered,         \* controller.AddToManager succeeded
    started,            \* mgr.Start was called
    clusterDomain,      \* options.ClusterDomain, "unset" until looked up
    nameservers,        \* options.Nameservers
    kubernetesVersion,  \* options.KubernetesVersion, 0.0 until looked up
    verified,           \* the secret verifyConfiguration asked for, and the answer
    instance,           \* the Installation handed to validateCustomResource
    ad,                 \* the NodeAddressAutodetection handed to validateNodeAddressDetection
    verdicts,           \* the errors the validation calls made so far returned
    validated,          \* the Installation, with the facts read, at each of these calls
    hpc,                \* executePreDeleteHook's position
    deletes,            \* the c.Delete calls it has made, with their results
    hwaited,            \* seconds since its time.After was armed
    hookRes             \* what it returned

optVars == <<clusterDomain, nameservers, kubernetesVersion, verified>>
hookVars == <<hpc, deletes, hwaited, hookRes>>
mainVars == <<pc, exited, exitCode, operatorNamespace, calls, errs, crds,
              bootConfig, registered, started, optVars, hookVars>>
watcherVars == <<ctxCancelled, wpc, retries, qres, slept, waited, log>>
envVars == <<active, sig, installation>>
flagVars == <<bootstrapCRDs, manageCRDs, sgSetup, preDelete>>
valVars == <<instance, ad, verdicts, validated>>
vars == <<mainVars, watcherVars, envVars, flagVars, valVars>>

----------------------------------------------------------------------------
(* Program constants. *)

MaxRetries == 5
RetrySleep == 1
GracePeriod == 60
WaitSleep == 1

(* Bound of the model: how many seconds late a sleeping goroutine may be   *)
(* resumed (scheduling and query latency).                                 *)
MaxLate == 1

(* executePreDeleteHook: the time.After and time.Sleep arguments, seconds. *)
HookTimeout == 300
HookSleep == 5

BadNamespaces ==
    { "common.CalicoNamespace", "calico-apiserver", "render.ElasticsearchNamespace",
      "render.ComplianceNamespace", "render.IntrusionDetectionNamespace",
      "dpi.DeepPacketInspectionNamespace", "eck.OperatorNamespace",
      "render.LogCollectorNamespace", "render.CSIDaemonSetNamespace",
      "render.ManagerNamespace" }

Namespaces == BadNamespaces \cup { "tigera-operator" }

(* The main path's steps, in program order. *)
StartupOrder ==
    << "GetConfig", "SgSetup", "PreDelete", "WaitUntilActive", "NewManager", "EnsureCRDs", "SpawnWatcher",
       "NewClientset", "AutoDiscoverProvider", "MultiTenant", "RequiresTigeraSecure",
       "GetClusterDomain", "Nameservers", "GetKubernetesVersion", "CheckNamespace",
       "LoadBootConfig", "MonitorConfigMap", "VerifyConfiguration", "AddToManager",
       "MgrStart" >>

Index(step) == CHOOSE i \in 1..Len(StartupOrder) : StartupOrder[i] = step

Before(step) == { StartupOrder[i] : i \in 1..(Index(step) - 1) }

After(step) == { StartupOrder[i] : i \in (Index(step) + 1)..Len(StartupOrder) }

----------------------------------------------------------------------------
(* The Installation validator.  An error is the sequence of the rules it   *)
(* reports; nil is the empty sequence.  A pointer field is a sequence of   *)
(* at most one element, empty when nil.                                    *)

Nil == << >>

Err(rule) == << rule >>

(* errors.Join: the non-nil errors, in order. *)
Join(e1, e2) == e1 \o e2

(* net.ParseCIDR succeeds on these strings and on no other of the model. *)
ParseableCIDRs == { "10.0.0.0/8", "fd00::/8" }

ParseCIDR(c) == IF c \in ParseableCIDRs THEN Nil ELSE Err("ParseCIDR")

RECURSIVE FirstBadCIDR(_, _)
(* for _, c := range ad.CIDRS: the index of the first entry that does not  *)
(* parse, 0 when all parse.                                                *)
FirstBadCIDR(cidrs, i) ==
    IF i > Len(cidrs) THEN 0
    ELSE IF ParseCIDR(cidrs[i]) # Nil THEN i
    ELSE FirstBadCIDR(cidrs, i + 1)

(* numEnabled before the Kubernetes source is counted. *)
NumEnabledBeforeKubernetes(a) ==
      (IF a.interface # "" THEN 1 ELSE 0)
    + (IF a.skipInterface # "" THEN 1 ELSE 0)
    + (IF a.canReach # "" THEN 1 ELSE 0)
    + (IF a.firstFound = << TRUE >> THEN 1 ELSE 0)
    + (IF Len(a.cidrs) # 0 THEN 1 ELSE 0)

(* Mutant: the Kubernetes source is not counted as a method. *)
NumEnabled_WithoutKubernetes(a) == NumEnabledBeforeKubernetes(a)

NumEnabled(a) ==
    NumEnabledBeforeKubernetes(a) + (IF a.kubernetes THEN 1 ELSE 0)

validateNodeAddressDetection(a) ==
    IF Len(a.cidrs) # 0 /\ FirstBadCIDR(a.cidrs, 1) # 0
    THEN Err("InvalidCIDR")
    ELSE IF NumEnabled(a) > 1
    THEN Err("ExclusiveAutodetection")
    ELSE Nil

(* strings.Contains(s, ch) and path.IsAbs(p), on strings held as the      *)
(* sequence of their characters.                                           *)
Contains(str, ch) == \E i \in DOMAIN str : str[i] = ch

IsAbs(p) == Len(p) > 0 /\ p[1] = "/"

NonePath == << "N", "o", "n", "e" >>

NonCalicoPlugins == { "GKE", "AmazonVPC", "AzureVNET" }

(* The provider a non-Calico CNI plugin is native to. *)
NativeProvider(plugin) ==
    CASE plugin = "GKE" -> "GKE"
      [] plugin = "AmazonVPC" -> "EKS"
      [] plugin = "AzureVNET" -> "AKS"

(* The IPAM plugins each CNI plugin works with. *)
CompatibleIPAM(plugin) ==
    CASE plugin = "Calico" -> { "Calico", "HostLocal" }
      [] plugin = "GKE" -> { "HostLocal" }
      [] plugin = "AmazonVPC" -> { "AmazonVPC" }
      [] plugin = "AzureVNET" -> { "AzureVNET" }

(* Mutant: the unit of the log file size is not looked at. *)
LoggingRules_AnyUnit(in) ==
    IF in.logging = << >> \/ in.logging[1].cni = << >> THEN Nil
    ELSE LET l == in.logging[1].cni[1]
         IN IF l.logFileMaxCount # << >> /\ l.logFileMaxCount[1] <= 0
            THEN Err("LogFileMaxCount")
            ELSE IF l.logFileMaxSize # << >> /\ l.logFileMaxSize[1].value <= 0
            THEN Err("LogFileMaxSize")
            ELSE IF l.logFileMaxAgeDays # << >> /\ l.logFileMaxAgeDays[1] <= 0
            THEN Err("LogFileMaxAgeDays")
            ELSE Nil

(* The logging checks of the Calico case. *)
LoggingRules(in) ==
    IF in.logging = << >> \/ in.logging[1].cni = << >> THEN Nil
    ELSE LET l == in.logging[1].cni[1]
         IN IF l.logFileMaxCount # << >> /\ l.logFileMaxCount[1] <= 0
            THEN Err("LogFileMaxCount")
            ELSE IF /\ l.logFileMaxSize # << >>
                    /\ \/ ~l.logFileMaxSize[1].binarySI
                       \/ l.logFileMaxSize[1].value <= 0
            THEN Err("LogFileMaxSize")
            ELSE IF l.logFileMaxAgeDays # << >> /\ l.logFileMaxAgeDays[1] <= 0
            THEN Err("LogFileMaxAgeDays")
            ELSE Nil

(* Mutant: the provider of a non-Calico plugin is not looked at. *)
CNIRules_AnyProvider(in) ==
    LET cni == in.cni[1]
    IN IF cni.type = "Calico"
       THEN IF cni.ipam \notin CompatibleIPAM("Calico")
            THEN Err("IPAMIncompatible")
            ELSE LoggingRules(in)
       ELSE IF cni.type \in NonCalicoPlugins
       THEN IF cni.ipam \notin CompatibleIPAM(cni.type)
            THEN Err("IPAMIncompatible")
            ELSE Nil
       ELSE Err("InvalidCNIType")

(* Mutant: the Calico plugin takes any IPAM plugin. *)
CNIRules_CalicoAnyIPAM(in) ==
    LET cni == in.cni[1]
    IN IF cni.type = "Calico"
       THEN LoggingRules(in)
       ELSE IF cni.type \in NonCalicoPlugins
       THEN IF in.kubernetesProvider \notin { NativeProvider(cni.type), "" }
            THEN Err("ProviderIncompatible")
            ELSE IF cni.ipam \notin CompatibleIPAM(cni.type)
            THEN Err("IPAMIncompatible")
            ELSE Nil
       ELSE Err("InvalidCNIType")

(* switch instance.Spec.CNI.Type *)
CNIRules(in) ==
    LET cni == in.cni[1]
    IN IF cni.type = "Calico"
       THEN IF cni.ipam \notin CompatibleIPAM("Calico")
            THEN Err("IPAMIncompatible")
            ELSE LoggingRules(in)
       ELSE IF cni.type \in NonCalicoPlugins
       THEN IF in.kubernetesProvider \notin { NativeProvider(cni.type), "" }
            THEN Err("ProviderIncompatible")
            ELSE IF cni.ipam \notin CompatibleIPAM(cni.type)
            THEN Err("IPAMIncompatible")
            ELSE Nil
       ELSE Err("InvalidCNIType")

BGPOff(cn) == cn.bgp = << >> \/ cn.bgp = << "Disabled" >>

(* Mutant: IPIP is accepted on IPv6 pools. *)
PoolFamilyRules_IPv6IPIPAllowed(cn, pool) ==
    LET bpfDataplane == cn.linuxDataplane = << "BPF" >>
    IN IF ~Contains(pool.cidr, ":")
       THEN IF bpfDataplane /\ cn.nodeAddressAutodetectionV4 = << >>
            THEN Err("AutodetectionV4Required")
            ELSE Nil
       ELSE IF bpfDataplane /\ cn.nodeAddressAutodetectionV6 = << >>
            THEN Err("AutodetectionV6Required")
            ELSE Nil

(* Mutant: the BPF dataplane asks for no autodetection. *)
PoolFamilyRules_NoBPFCheck(cn, pool) ==
    IF ~Contains(pool.cidr, ":") THEN Nil
    ELSE IF pool.encapsulation \in { "IPIP", "IPIPCrossSubnet" }
    THEN Err("IPIPOnIPv6")
    ELSE Nil

(* The first check of the loop body: the address family of the pool. *)
PoolFamilyRules(cn, pool) ==
    LET bpfDataplane == cn.linuxDataplane = << "BPF" >>
        isIPv4 == ~Contains(pool.cidr, ":")
    IN IF isIPv4
       THEN IF bpfDataplane /\ cn.nodeAddressAutodetectionV4 = << >>
            THEN Err("AutodetectionV4Required")
            ELSE Nil
       ELSE IF pool.encapsulation \in { "IPIP", "IPIPCrossSubnet" }
            THEN Err("IPIPOnIPv6")
            ELSE IF bpfDataplane /\ cn.nodeAddressAutodetectionV6 = << >>
            THEN Err("AutodetectionV6Required")
            ELSE Nil

(* Mutant: with Calico IPAM an unencapsulated pool needs no BGP. *)
PoolEncapsulationRules_NoneNeedsNoBGP(in, cn, pool) ==
    LET cni == in.cni[1]
    IN IF cni.type = "Calico"
       THEN IF cni.ipam = "Calico"
            THEN IF pool.encapsulation \in { "IPIP", "IPIPCrossSubnet" } /\ BGPOff(cn)
                 THEN Err("IPIPRequiresBGP")
                 ELSE Nil
            ELSE IF cni.ipam = "HostLocal"
            THEN IF pool.encapsulation \in { "VXLAN", "VXLANCrossSubnet" }
                 THEN Err("VXLANWithHostLocal")
                 ELSE Nil
            ELSE Nil
       ELSE IF pool.encapsulation \notin { "", "None" }
            THEN Err("EncapsulationNonCalicoCNI")
            ELSE IF cn.bgp = << "Enabled" >>
            THEN Err("BGPNonCalicoCNI")
            ELSE Nil

(* The second check of the loop body: encapsulation against CNI and IPAM. *)
PoolEncapsulationRules(in, cn, pool) ==
    LET cni == in.cni[1]
    IN IF cni.type = "Calico"
       THEN IF cni.ipam = "Calico"
            THEN IF pool.encapsulation \in { "IPIP", "IPIPCrossSubnet" } /\ BGPOff(cn)
                 THEN Err("IPIPRequiresBGP")
                 ELSE IF pool.encapsulation = "None" /\ BGPOff(cn)
                 THEN Err("UnencapsulatedRequiresBGP")
                 ELSE Nil
            ELSE IF cni.ipam = "HostLocal"
            THEN IF pool.encapsulation \in { "VXLAN", "VXLANCrossSubnet" }
                 THEN Err("VXLANWithHostLocal")
                 ELSE Nil
            ELSE Nil
       ELSE IF pool.encapsulation \notin { "", "None" }
            THEN Err("EncapsulationNonCalicoCNI")
            ELSE IF cn.bgp = << "Enabled" >>
            THEN Err("BGPNonCalicoCNI")
            ELSE Nil

RECURSIVE PoolRules(_, _, _)
(* for _, pool := range instance.Spec.CalicoNetwork.IPPools *)
PoolRules(in, cn, i) ==
    IF i > Len(cn.ipPools) THEN Nil
    ELSE LET e1 == PoolFamilyRules(cn, cn.ipPools[i])
             e2 == PoolEncapsulationRules(in, cn, cn.ipPools[i])
         IN IF e1 # Nil THEN e1
            ELSE IF e2 # Nil THEN e2
            ELSE PoolRules(in, cn, i + 1)

(* Mutant: VPP accepts disabled host ports. *)
VPPRules_HostPortsIgnored(in, cn) ==
    IF cn.linuxDataplane # << "VPP" >> THEN Nil
    ELSE IF in.variant # "Calico" THEN Err("VPPVariant")
    ELSE IF in.cni[1].type # "Calico" THEN Err("VPPCNI")
    ELSE IF BGPOff(cn) THEN Err("VPPRequiresBGP")
    ELSE Nil

(* VPP specific validation *)
VPPRules(in, cn) ==
    IF cn.linuxDataplane # << "VPP" >> THEN Nil
    ELSE IF in.variant # "Calico" THEN Err("VPPVariant")
    ELSE IF in.cni[1].type # "Calico" THEN Err("VPPCNI")
    ELSE IF BGPOff(cn) THEN Err("VPPRequiresBGP")
    ELSE IF cn.hostPorts = << "Disabled" >> THEN Err("VPPHostPorts")
    ELSE Nil

AutodetectionRules(cn) ==
    LET e4 == IF cn.nodeAddressAutodetectionV4 = << >> THEN Nil
              ELSE validateNodeAddressDetection(cn.nodeAddressAutodetectionV4[1])
        e6 == IF cn.nodeAddressAutodetectionV6 = << >> THEN Nil
              ELSE validateNodeAddressDetection(cn.nodeAddressAutodetectionV6[1])
    IN IF e4 # Nil THEN e4 ELSE e6

(* operatorv1.HostPortsTypes *)
HostPortsTypes == { "Enabled", "Disabled" }

validateHostPorts(hp) ==
    IF hp = << >> THEN Err("HostPortsUnset")
    ELSE IF hp[1] \notin HostPortsTypes THEN Err("HostPortsInvalid")
    ELSE Nil

HostPortsRules(in, cn) ==
    IF cn.hostPorts = << >> THEN Nil
    ELSE IF cn.hostPorts = << "Enabled" >> /\ in.cni[1].type # "Calico"
    THEN Err("HostPortsNonCalicoCNI")
    ELSE validateHostPorts(cn.hostPorts)

(* utils.VerifySysctl: the tuning settings are all allowed ones. *)
VerifySysctl(sysctl) == IF sysctl.allowed THEN Nil ELSE Err("Sysctl")

PolicySetupTimeoutRules(cn) ==
    IF cn.linuxPolicySetupTimeoutSeconds = << >> THEN Nil
    ELSE IF cn.linuxPolicySetupTimeoutSeconds[1] < 0 THEN Err("PolicySetupTimeoutNegative")
    ELSE IF cn.linuxDataplane = << >> THEN Err("PolicySetupTimeoutNoDataplane")
    ELSE IF cn.linuxDataplane[1] \notin { "Iptables", "BPF", "Nftables" }
    THEN Err("PolicySetupTimeoutDataplane")
    ELSE Nil

(* The checks made on instance.Spec.CalicoNetwork after the pool loop and  *)
(* the VPP checks.                                                         *)
CalicoNetworkFieldRules(in, cn) ==
    LET e1 == AutodetectionRules(cn)
        e2 == HostPortsRules(in, cn)
        nonCalico == in.cni[1].type # "Calico"
    IN IF e1 # Nil THEN e1
       ELSE IF e2 # Nil THEN e2
       ELSE IF cn.multiInterfaceMode # << >> /\ nonCalico
       THEN Err("MultiInterfaceModeNonCalicoCNI")
       ELSE IF cn.containerIPForwarding # << >> /\ nonCalico
       THEN Err("ContainerIPForwardingNonCalicoCNI")
       ELSE IF cn.sysctl # << >> /\ VerifySysctl(cn.sysctl[1]) # Nil
       THEN VerifySysctl(cn.sysctl[1])
       ELSE PolicySetupTimeoutRules(cn)

(* if instance.Spec.CalicoNetwork != nil { ... } *)
CalicoNetworkRules(in) ==
    IF in.calicoNetwork = << >> THEN Nil
    ELSE LET cn == in.calicoNetwork[1]
             e1 == PoolRules(in, cn, 1)
             e2 == VPPRules(in, cn)
         IN IF e1 # Nil THEN e1
            ELSE IF e2 # Nil THEN e2
            ELSE CalicoNetworkFieldRules(in, cn)

ValidComponentNames == { "KubeControllers", "Node", "Typha" }

(* The checks from the flexvolume path to the non-privileged mode. *)
DeploymentRules(in) ==
    IF in.flexVolumePath # NonePath /\ ~IsAbs(in.flexVolumePath)
    THEN Err("FlexVolumePath")
    ELSE IF in.kubeletVolumePluginPath # NonePath /\ ~IsAbs(in.kubeletVolumePluginPath)
    THEN Err("KubeletVolumePluginPath")
    ELSE IF in.nodeUpdateStrategy # "RollingUpdate"
    THEN Err("NodeUpdateStrategy")
    ELSE IF \E k \in DOMAIN in.controlPlaneNodeSelector :
              /\ k = "beta.kubernetes.io/os"
              /\ in.controlPlaneNodeSelector[k] # "linux"
    THEN Err("ControlPlaneNodeSelectorBeta")
    ELSE IF \E k \in DOMAIN in.controlPlaneNodeSelector :
              /\ k = "kubernetes.io/os"
              /\ in.controlPlaneNodeSelector[k] # "linux"
    THEN Err("ControlPlaneNodeSelector")
    ELSE IF in.controlPlaneReplicas # << >> /\ in.controlPlaneReplicas[1] <= 0
    THEN Err("ControlPlaneReplicas")
    ELSE IF \E i \in DOMAIN in.componentResources :
              in.componentResources[i] \notin ValidComponentNames
    THEN Err("ComponentName")
    ELSE IF in.nonPrivileged # << "Enabled" >> THEN Nil
    ELSE IF in.calicoNetwork # << >> /\ in.calicoNetwork[1].linuxDataplane = << "BPF" >>
    THEN Err("NonPrivilegedBPF")
    ELSE IF in.variant = "TigeraSecureEnterprise"
    THEN Err("NonPrivilegedEnterprise")
    ELSE Nil

RECURSIVE ExclusiveScan(_, _, _, _)
(* The loop of validateExclusiveInitContainers, from container i on, with  *)
(* the two flags as they stand.                                            *)
ExclusiveScan(initContainers, i, hasMountBpffs, hasEbpfBootstrap) ==
    IF i > Len(initContainers) THEN Nil
    ELSE LET m == hasMountBpffs \/ initContainers[i] = "mount-bpffs"
             e == hasEbpfBootstrap \/ initContainers[i] = "ebpf-bootstrap"
         IN IF m /\ e THEN Err("ExclusiveInitContainers")
            ELSE ExclusiveScan(initContainers, i + 1, m, e)

(* Mutant: only mount-bpffs followed by ebpf-bootstrap is refused. *)
validateExclusiveInitContainers_MountFirst(initContainers) ==
    IF \E i, j \in DOMAIN initContainers :
          /\ i < j
          /\ initContainers[i] = "mount-bpffs"
          /\ initContainers[j] = "ebpf-bootstrap"
    THEN Err("ExclusiveInitContainers")
    ELSE Nil

validateExclusiveInitContainers(initContainers) ==
    ExclusiveScan(initContainers, 1, FALSE, FALSE)

(* validation.ValidateReplicatedPodResourceOverrides with the workload's   *)
(* container validators: the verdict of the per-workload policy.           *)
ValidateReplicatedPodResourceOverrides(workload, rule) ==
    IF workload.overridesValid THEN Nil ELSE Err(rule)

(* rcc.GetInitContainers *)
GetInitContainers(workload) == workload.initContainers

(* Mutant: the node daemonset reports the first of its two errors only. *)
NodeDaemonSetRules_FirstOnly(in) ==
    IF in.calicoNodeDaemonSet = << >> THEN Nil
    ELSE LET ds == in.calicoNodeDaemonSet[1]
             err == ValidateReplicatedPodResourceOverrides(ds, "NodeDaemonSetOverrides")
             err2 == validateExclusiveInitContainers(GetInitContainers(ds))
         IN IF err # Nil THEN err ELSE err2

(* Verify the CalicoNodeDaemonSet overrides: both checks run, and their    *)
(* errors are joined.                                                      *)
NodeDaemonSetRules(in) ==
    IF in.calicoNodeDaemonSet = << >> THEN Nil
    ELSE LET ds == in.calicoNodeDaemonSet[1]
             err == ValidateReplicatedPodResourceOverrides(ds, "NodeDaemonSetOverrides")
             err2 == validateExclusiveInitContainers(GetInitContainers(ds))
         IN IF err # Nil \/ err2 # Nil THEN Join(err, err2) ELSE Nil

WorkloadRules(workload, rule) ==
    IF workload = << >> THEN Nil
    ELSE ValidateReplicatedPodResourceOverrides(workload[1], rule)

(* The override checks, in the order of the code. *)
OverrideRules(in) ==
    LET e1 == NodeDaemonSetRules(in)
        e2 == WorkloadRules(in.calicoNodeWindowsDaemonSet, "NodeWindowsDaemonSetOverrides")
        e3 == WorkloadRules(in.calicoKubeControllersDeployment, "KubeControllersOverrides")
        e4 == WorkloadRules(in.typhaDeployment, "TyphaOverrides")
        e5 == WorkloadRules(in.csiNodeDriverDaemonSet, "CSINodeDriverOverrides")
    IN IF e1 # Nil THEN e1
       ELSE IF e2 # Nil THEN e2
       ELSE IF e3 # Nil THEN e3
       ELSE IF e4 # Nil THEN e4
       ELSE e5

(* common.WindowsEnabled(instance.Spec) *)
WindowsEnabled(in) ==
    in.calicoNetwork # << >> /\ in.calicoNetwork[1].windowsDataplane = "HNS"

RECURSIVE GetIPv4Pool(_, _)
(* render.GetIPv4Pool: the first IPv4 pool, if any. *)
GetIPv4Pool(pools, i) ==
    IF i > Len(pools) THEN << >>
    ELSE IF ~Contains(pools[i].cidr, ":") THEN << pools[i] >>
    ELSE GetIPv4Pool(pools, i + 1)

WindowsRules(in) ==
    IF WindowsEnabled(in)
    THEN IF in.endpoint.host = "" \/ in.endpoint.port = ""
         THEN Err("WindowsEndpoint")
         ELSE IF in.cni[1].type # "Calico" THEN Nil
         ELSE IF Len(in.serviceCIDRs) = 0 THEN Err("WindowsServiceCIDRs")
         ELSE LET v4pool == GetIPv4Pool(in.calicoNetwork[1].ipPools, 1)
              IN IF v4pool # << >> /\ v4pool[1].encapsulation \notin { "VXLAN", "None" }
                 THEN Err("WindowsEncapsulation")
                 ELSE Nil
    ELSE IF in.windowsNodes # << >> THEN Err("WindowsNodes")
    ELSE Nil

(* operatorv1.IsFIPSModeEnabled *)
IsFIPSModeEnabled(fipsMode) == fipsMode = << "Enabled" >>

(* The checks after the overrides. *)
ClusterRules(in) ==
    LET e == WindowsRules(in)
    IN IF in.cni[1].type # "Calico" /\ in.logging # << >> /\ in.logging[1].cni # << >>
       THEN Err("LoggingNonCalicoCNI")
       ELSE IF e # Nil THEN e
       ELSE IF IsFIPSModeEnabled(in.fipsMode) /\ in.variant = "TigeraSecureEnterprise"
       THEN Err("FIPSEnterprise")
       ELSE IF in.kubernetesProvider # "AKS" /\ in.azure # << >>
       THEN Err("AzureNonAKS")
       ELSE Nil

(* The rule groups of validateCustomResource, in the order of the code.    *)
(* All but the first read instance.Spec.CNI, so they are evaluated only    *)
(* when it is set.                                                         *)
RuleGroups(in) ==
    << CNIRules(in), CalicoNetworkRules(in), DeploymentRules(in),
       OverrideRules(in), ClusterRules(in) >>

RECURSIVE FirstError(_, _)
(* The error of the first group from i on that reports one. *)
FirstError(groups, i) ==
    IF i > Len(groups) THEN Nil
    ELSE IF groups[i] # Nil THEN groups[i]
    ELSE FirstError(groups, i + 1)

validateCustomResource(in) ==
    IF in.cni = << >> THEN Err("CNIUndefined")
    ELSE FirstError(RuleGroups(in), 1)

(* An Installation that passes, after defaulting: Calico CNI and IPAM, no  *)
(* calicoNetwork section, nothing optional set.                            *)
DefaultInstance ==
    [ cni |-> << [type |-> "Calico", ipam |-> "Calico"] >>,
      kubernetesProvider |-> "",
      variant |-> "Calico",
      logging |-> << >>,
      calicoNetwork |-> << >>,
      flexVolumePath |-> NonePath,
      kubeletVolumePluginPath |-> NonePath,
      nodeUpdateStrategy |-> "RollingUpdate",
      controlPlaneNodeSelector |-> << >>,
      controlPlaneReplicas |-> << >>,
      componentResources |-> << >>,
      nonPrivileged |-> << >>,
      calicoNodeDaemonSet |-> << >>,
      calicoNodeWindowsDaemonSet |-> << >>,
      calicoKubeControllersDeployment |-> << >>,
      typhaDeployment |-> << >>,
      csiNodeDriverDaemonSet |-> << >>,
      endpoint |-> [host |-> "10.0.0.1", port |-> "6443"],
      serviceCIDRs |-> << >>,
      windowsNodes |-> << >>,
      fipsMode |-> << >>,
      azure |-> << >> ]

(* A NodeAddressAutodetection with no method set. *)
DefaultAd ==
    [ interface |-> "", skipInterface |-> "", canReach |-> "",
      firstFound |-> << >>, cidrs |-> << >>, kubernetes |-> FALSE ]

(* A calicoNetwork section with nothing set. *)
DefaultCalicoNetwork ==
    [ linuxDataplane |-> << >>,
      ipPools |-> << >>,
      bgp |-> << >>,
      nodeAddressAutodetectionV4 |-> << >>,
      nodeAddressAutodetectionV6 |-> << >>,
      hostPorts |-> << >>,
      multiInterfaceMode |-> << >>,
      containerIPForwarding |-> << >>,
      sysctl |-> << >>,
      linuxPolicySetupTimeoutSeconds |-> << >>,
      windowsDataplane |-> "" ]

----------------------------------------------------------------------------
(* The main path. *)

(* The process as main() finds it. *)
MainInit ==
    /\ pc = "GetConfig"
    /\ exited = FALSE
    /\ exitCode = -1
    /\ bootstrapCRDs \in BOOLEAN
    /\ manageCRDs \in BOOLEAN
    /\ sgSetup \in BOOLEAN
    /\ preDelete \in BOOLEAN
    /\ hpc = "Delete"
    /\ deletes = << >>
    /\ hwaited = 0
    /\ hookRes = "none"
    /\ operatorNamespace = "unread"
    /\ active \in BOOLEAN
    /\ sig = FALSE
    /\ installation \in { "absent", "present", "deleting" }
    /\ ctxCancelled = FALSE
    /\ wpc = "unspawned"
    /\ retries = 0
    /\ qres = "none"
    /\ slept = 0
    /\ waited = 0
    /\ log = {}
    /\ calls = {}
    /\ errs = {}
    /\ crds = FALSE
    /\ bootConfig = "unset"
    /\ registered = FALSE
    /\ started = FALSE
    /\ clusterDomain = "unset"
    /\ nameservers = << >>
    /\ kubernetesVersion = [Major |-> 0, Minor |-> 0]
    /\ verified = [queried |-> {}, res |-> "none"]

(* No validation is under way while the process starts. *)
Init ==
    /\ MainInit
    /\ instance = DefaultInstance
    /\ ad = DefaultAd
    /\ verdicts = << >>
    /\ validated = << >>

(* The process ends: its goroutines, locals and timers are gone; what it   *)
(* logged and did to the cluster stays.                                    *)
ProcessEnds ==
    /\ exited' = TRUE
    /\ wpc' = (IF wpc = "unspawned" THEN "unspawned" ELSE "dead")
    /\ retries' = 0
    /\ qres' = "none"
    /\ slept' = 0
    /\ waited' = 0
    /\ UNCHANGED <<ctxCancelled, log>>

(* os.Exit(code) at the step the main path is at. *)
Exit(code) ==
    /\ ProcessEnds
    /\ exitCode' = code
    /\ pc' = pc
    /\ calls' = calls \cup {pc}

(* The step returned an error and the main path calls os.Exit(1). *)
Fatal ==
    /\ Exit(1)
    /\ errs' = errs \cup {pc}

(* The step succeeded; the main path goes on to the next one. *)
Proceed(next) ==
    /\ pc' = next
    /\ calls' = calls \cup {pc}
    /\ UNCHANGED <<exited, exitCode, errs>>
    /\ UNCHANGED watcherVars

(* The step returned an error that is only logged. *)
Tolerate(next) ==
    /\ pc' = next
    /\ calls' = calls \cup {pc}
    /\ errs' = errs \cup {pc}
    /\ UNCHANGED <<exited, exitCode>>
    /\ UNCHANGED watcherVars

At(step) == ~exited /\ pc = step

GetConfig ==
    /\ At("GetConfig")
    /\ \/ Fatal
       \/ Proceed("SgSetup")
    /\ UNCHANGED <<operatorNamespace, crds, bootConfig, registered, started>>
    /\ UNCHANGED <<envVars, flagVars, optVars, valVars, hookVars>>

(* Mutant: after the security group setup main goes on. *)
SgSetup_Continues ==
    /\ At("SgSetup")
    /\ IF sgSetup
       THEN \/ Fatal
            \/ Proceed("PreDelete")
       ELSE /\ pc' = "PreDelete"
            /\ UNCHANGED <<calls, exited, exitCode, errs>>
            /\ UNCHANGED watcherVars
    /\ UNCHANGED <<operatorNamespace, crds, bootConfig, registered, started>>
    /\ UNCHANGED <<envVars, flagVars, optVars, valVars, hookVars>>

(* if sgSetup { SetupAWSSecurityGroups; os.Exit } *)
SgSetup ==
    /\ At("SgSetup")
    /\ IF sgSetup
       THEN \/ Fatal
            \/ Exit(0) /\ UNCHANGED errs
       ELSE /\ pc' = "PreDelete"
            /\ UNCHANGED <<calls, exited, exitCode, errs>>
            /\ UNCHANGED watcherVars
    /\ UNCHANGED <<operatorNamespace, crds, bootConfig, registered, started>>
    /\ UNCHANGED <<envVars, flagVars, optVars, valVars, hookVars>>

(* if preDelete { ... } is not taken. *)
PreDeleteSkipped ==
    /\ At("PreDelete")
    /\ ~preDelete
    /\ pc' = "WaitUntilActive"
    /\ UNCHANGED <<calls, exited, exitCode, errs>>
    /\ UNCHANGED watcherVars
    /\ UNCHANGED <<operatorNamespace, crds, bootConfig, registered, started>>
    /\ UNCHANGED <<envVars, flagVars, optVars, valVars, hookVars>>

(* client.Get(ctx, utils.DefaultInstanceKey, instance): an error that is   *)
(* not NotFound, or what the cluster holds.                                *)
QueryResults ==
    { "Error",
      CASE installation = "absent" -> "NotFound"
        [] installation = "present" -> "Present"
        [] installation = "deleting" -> "Deleting" }

(* The objects executePreDeleteHook deletes, in the order of its loop. *)
HookObjects == << "Whisker", "Goldmane", "Installation", "APIServer" >>

(* What c.Delete can answer. *)
DeleteResults(o) ==
    IF o = "Installation"
    THEN IF installation = "absent" THEN { "NotFound", "Error" } ELSE { "ok", "Error" }
    ELSE { "ok", "NotFound", "Error" }

(* executePreDeleteHook returns res; main exits with 0 on nil, 1 otherwise. *)
HookReturns(res) ==
    /\ hookRes' = res
    /\ IF res = "nil" THEN Exit(0) /\ UNCHANGED errs ELSE Fatal

HookGoesOn(next) ==
    /\ hpc' = next
    /\ UNCHANGED <<pc, calls, exited, exitCode, errs, hookRes>>
    /\ UNCHANGED watcherVars

(* Mutant: a failed delete is skipped like a NotFound. *)
DeleteOutcome_ErrorsSkipped(r) ==
    /\ HookGoesOn(IF Len(deletes) + 1 = Len(HookObjects) THEN "Wait" ELSE "Delete")
    /\ UNCHANGED hwaited

(* if err := c.Delete(ctx, o); err != nil { NotFound: continue; return err } *)
DeleteOutcome(r) ==
    IF r = "Error"
    THEN /\ HookReturns("DeleteError")
         /\ UNCHANGED <<hpc, hwaited>>
    ELSE /\ HookGoesOn(IF Len(deletes) + 1 = Len(HookObjects) THEN "Wait" ELSE "Delete")
         /\ UNCHANGED hwaited

(* One iteration of the delete loop.  A delete of the Installation that    *)
(* succeeds removes it, or marks it for deletion when it has finalizers.   *)
HookDelete ==
    /\ At("PreDelete")
    /\ preDelete
    /\ hpc = "Delete"
    /\ LET o == HookObjects[Len(deletes) + 1]
       IN \E r \in DeleteResults(o) :
            /\ deletes' = Append(deletes, [obj |-> o, res |-> r])
            /\ IF o = "Installation" /\ r = "ok"
               THEN installation' \in
                      (IF installation = "present" THEN { "deleting", "absent" }
                       ELSE { "deleting" })
               ELSE UNCHANGED installation
            /\ DeleteOutcome(r)
    /\ UNCHANGED <<active, sig>>
    /\ UNCHANGED <<operatorNamespace, crds, bootConfig, registered, started>>
    /\ UNCHANGED <<flagVars, optVars, valVars>>

(* select { case <-to: ...; default: Get } of the hook's wait loop. *)
HookWaitPoll ==
    /\ At("PreDelete")
    /\ preDelete
    /\ hpc = "Wait"
    /\ IF hwaited >= HookTimeout
       THEN HookReturns("Timeout") /\ UNCHANGED hpc
       ELSE \E r \in QueryResults :
              IF r = "NotFound"
              THEN HookReturns("nil") /\ UNCHANGED hpc
              ELSE HookGoesOn("Sleep")
    /\ UNCHANGED <<deletes, hwaited>>
    /\ UNCHANGED <<operatorNamespace, crds, bootConfig, registered, started>>
    /\ UNCHANGED <<envVars, flagVars, optVars, valVars>>

(* time.Sleep(5 * time.Second) of the hook is over. *)
HookWake ==
    /\ At("PreDelete")
    /\ preDelete
    /\ hpc = "Sleep"
    /\ hwaited' = hwaited + HookSleep
    /\ HookGoesOn("Wait")
    /\ UNCHANGED deletes
    /\ UNCHANGED <<operatorNamespace, crds, bootConfig, registered, started>>
    /\ UNCHANGED <<envVars, flagVars, optVars, valVars>>

(* Mutant: becoming active wins over a signal that has already arrived. *)
WaitUntilActiveReturns_IgnoresSignal ==
    /\ At("WaitUntilActive")
    /\ active
    /\ Proceed("NewManager")
    /\ UNCHANGED <<operatorNamespace, crds, bootConfig, registered, started>>
    /\ UNCHANGED <<envVars, flagVars, optVars, valVars, hookVars>>

(* active.WaitUntilActive returns once this instance is the active one. *)
WaitUntilActiveReturns ==
    /\ At("WaitUntilActive")
    /\ active
    /\ ~sig
    /\ Proceed("NewManager")
    /\ UNCHANGED <<operatorNamespace, crds, bootConfig, registered, started>>
    /\ UNCHANGED <<envVars, flagVars, optVars, valVars, hookVars>>

(* active.WaitUntilActive is cancelled by the signal: the process ends. *)
WaitUntilActiveCancelled ==
    /\ At("WaitUntilActive")
    /\ sig
    /\ \E code \in {0, 1} : Exit(code)
    /\ UNCHANGED <<errs, operatorNamespace, crds, bootConfig, registered, started>>
    /\ UNCHANGED <<envVars, flagVars, optVars, valVars, hookVars>>

(* Mutant: the termination goroutine is started with the manager, before  *)
(* the CRD bootstrap.                                                      *)
NewManager_SpawnsWatcher ==
    /\ At("NewManager")
    /\ \/ Fatal
       \/ /\ pc' = "EnsureCRDs"
          /\ calls' = calls \cup {pc}
          /\ wpc' = "WaitSignal"
          /\ UNCHANGED <<exited, exitCode, errs>>
          /\ UNCHANGED <<ctxCancelled, retries, qres, slept, waited, log>>
    /\ UNCHANGED <<operatorNamespace, crds, bootConfig, registered, started>>
    /\ UNCHANGED <<envVars, flagVars, optVars, valVars, hookVars>>

NewManager ==
    /\ At("NewManager")
    /\ \/ Fatal
       \/ Proceed("EnsureCRDs")
    /\ UNCHANGED <<operatorNamespace, crds, bootConfig, registered, started>>
    /\ UNCHANGED <<envVars, flagVars, optVars, valVars, hookVars>>

(* Mutant: with --bootstrap-crds startup goes on after the install. *)
EnsureCRDs_BootstrapContinues ==
    /\ At("EnsureCRDs")
    /\ IF bootstrapCRDs \/ manageCRDs
       THEN \/ Fatal /\ UNCHANGED crds
            \/ /\ crds' = TRUE
               /\ Proceed("SpawnWatcher")
       ELSE /\ pc' = "SpawnWatcher"
            /\ UNCHANGED <<calls, exited, exitCode, errs, crds>>
            /\ UNCHANGED watcherVars
    /\ UNCHANGED <<operatorNamespace, bootConfig, registered, started>>
    /\ UNCHANGED <<envVars, flagVars, optVars, valVars, hookVars>>

EnsureCRDs ==
    /\ At("EnsureCRDs")
    /\ IF bootstrapCRDs \/ manageCRDs
       THEN \/ Fatal /\ UNCHANGED crds
            \/ /\ crds' = TRUE
               /\ IF bootstrapCRDs
                  THEN Exit(0) /\ UNCHANGED errs
                  ELSE Proceed("SpawnWatcher")
       ELSE /\ pc' = "SpawnWatcher"
            /\ UNCHANGED <<calls, exited, exitCode, errs, crds>>
            /\ UNCHANGED watcherVars
    /\ UNCHANGED <<operatorNamespace, bootConfig, registered, started>>
    /\ UNCHANGED <<envVars, flagVars, optVars, valVars, hookVars>>

(* go func() { ... }() *)
SpawnWatcher ==
    /\ At("SpawnWatcher")
    /\ pc' = "NewClientset"
    /\ calls' = calls \cup {pc}
    /\ wpc' = "WaitSignal"
    /\ UNCHANGED <<exited, exitCode, errs>>
    /\ UNCHANGED <<ctxCancelled, retries, qres, slept, waited, log>>
    /\ UNCHANGED <<operatorNamespace, crds, bootConfig, registered, started>>
    /\ UNCHANGED <<envVars, flagVars, optVars, valVars, hookVars>>

NewClientset ==
    /\ At("NewClientset")
    /\ \/ Fatal
       \/ Proceed("AutoDiscoverProvider")
    /\ UNCHANGED <<operatorNamespace, crds, bootConfig, registered, started>>
    /\ UNCHANGED <<envVars, flagVars, optVars, valVars, hookVars>>

(* Mutant: a provider detection error is logged and startup goes on. *)
AutoDiscoverProvider_Tolerated ==
    /\ At("AutoDiscoverProvider")
    /\ \/ Tolerate("MultiTenant")
       \/ Proceed("MultiTenant")
    /\ UNCHANGED <<operatorNamespace, crds, bootConfig, registered, started>>
    /\ UNCHANGED <<envVars, flagVars, optVars, valVars, hookVars>>

AutoDiscoverProvider ==
    /\ At("AutoDiscoverProvider")
    /\ \/ Fatal
       \/ Proceed("MultiTenant")
    /\ UNCHANGED <<operatorNamespace, crds, bootConfig, registered, started>>
    /\ UNCHANGED <<envVars, flagVars, optVars, valVars, hookVars>>

MultiTenant ==
    /\ At("MultiTenant")
    /\ \/ Fatal
       \/ Proceed("RequiresTigeraSecure")
    /\ UNCHANGED <<operatorNamespace, crds, bootConfig, registered, started>>
    /\ UNCHANGED <<envVars, flagVars, optVars, valVars, hookVars>>

RequiresTigeraSecure ==
    /\ At("RequiresTigeraSecure")
    /\ \/ Fatal
       \/ Proceed("GetClusterDomain")
    /\ UNCHANGED <<operatorNamespace, crds, bootConfig, registered, started>>
    /\ UNCHANGED <<envVars, flagVars, optVars, valVars, hookVars>>

(* clusterDomain = dns.DefaultClusterDomain *)
DefaultClusterDomain == "dns.DefaultClusterDomain"

(* kubernetesVersion = &common.VersionInfo{Major: 1, Minor: 18} *)
DefaultKubernetesVersion == [Major |-> 1, Minor |-> 18]

(* What the three lookups find when they succeed. *)
FoundClusterDomain == "acme.local"
FoundNameservers == << "10.96.0.10" >>
FoundKubernetesVersion == [Major |-> 1, Minor |-> 30]

GetClusterDomain ==
    /\ At("GetClusterDomain")
    /\ \/ Tolerate("Nameservers") /\ clusterDomain' = DefaultClusterDomain
       \/ Proceed("Nameservers") /\ clusterDomain' = FoundClusterDomain
    /\ UNCHANGED <<operatorNamespace, crds, bootConfig, registered, started>>
    /\ UNCHANGED <<envVars, flagVars, valVars, hookVars>>
    /\ UNCHANGED <<nameservers, kubernetesVersion, verified>>

(* On an error nameservers keeps what dns.Nameservers returned with it, *)
(* the nil slice; nothing is substituted.                              *)
Nameservers ==
    /\ At("Nameservers")
    /\ \/ Tolerate("GetKubernetesVersion") /\ nameservers' = << >>
       \/ Proceed("GetKubernetesVersion") /\ nameservers' = FoundNameservers
    /\ UNCHANGED <<operatorNamespace, crds, bootConfig, registered, started>>
    /\ UNCHANGED <<envVars, flagVars, valVars, hookVars>>
    /\ UNCHANGED <<clusterDomain, kubernetesVersion, verified>>

(* Mutant: a version lookup error ends the process. *)
GetKubernetesVersion_Fatal ==
    /\ At("GetKubernetesVersion")
    /\ \/ Fatal /\ UNCHANGED kubernetesVersion
       \/ Proceed("CheckNamespace") /\ kubernetesVersion' = FoundKubernetesVersion
    /\ UNCHANGED <<operatorNamespace, crds, bootConfig, registered, started>>
    /\ UNCHANGED <<envVars, flagVars, valVars, hookVars>>
    /\ UNCHANGED <<clusterDomain, nameservers, verified>>

GetKubernetesVersion ==
    /\ At("GetKubernetesVersion")
    /\ \/ Tolerate("CheckNamespace") /\ kubernetesVersion' = DefaultKubernetesVersion
       \/ Proceed("CheckNamespace") /\ kubernetesVersion' = FoundKubernetesVersion
    /\ UNCHANGED <<operatorNamespace, crds, bootConfig, registered, started>>
    /\ UNCHANGED <<envVars, flagVars, valVars, hookVars>>
    /\ UNCHANGED <<clusterDomain, nameservers, verified>>

(* Mutant: the loop misses the last entry of badNamespaces. *)
NamespaceIsBad_SkipsLast(ns) ==
    \E bad \in BadNamespaces \ {"render.ManagerNamespace"} : ns = bad

(* for _, ns := range badNamespaces { if common.OperatorNamespace() == ns ... } *)
NamespaceIsBad(ns) == \E bad \in BadNamespaces : ns = bad

CheckNamespace ==
    /\ At("CheckNamespace")
    /\ \E ns \in Namespaces :
         /\ operatorNamespace' = ns
         /\ IF NamespaceIsBad(ns)
            THEN Exit(1) /\ UNCHANGED errs
            ELSE Proceed("LoadBootConfig")
    /\ UNCHANGED <<crds, bootConfig, registered, started>>
    /\ UNCHANGED <<envVars, flagVars, optVars, valVars, hookVars>>

(* Mutant: any error of the bootstrap configmap read is passed over. *)
LoadBootConfig_ErrorsTolerated ==
    /\ At("LoadBootConfig")
    /\ \/ Tolerate("MonitorConfigMap") /\ bootConfig' = "NotFound"
       \/ /\ \E c \in { "NotFound", "internal", "external" } : bootConfig' = c
          /\ Proceed("MonitorConfigMap")
    /\ UNCHANGED <<operatorNamespace, crds, registered, started>>
    /\ UNCHANGED <<envVars, flagVars, optVars, valVars, hookVars>>

(* ConfigMaps(ns).Get: an error other than NotFound is fatal; with NotFound *)
(* bootConfig is the empty ConfigMap the client returns with the error     *)
(* ("NotFound"), otherwise the stored one, whose data selects internal or  *)
(* external log storage.                                                   *)
LoadBootConfig ==
    /\ At("LoadBootConfig")
    /\ \/ Fatal /\ UNCHANGED bootConfig
       \/ /\ \E c \in { "NotFound", "internal", "external" } : bootConfig' = c
          /\ Proceed("MonitorConfigMap")
    /\ UNCHANGED <<operatorNamespace, crds, registered, started>>
    /\ UNCHANGED <<envVars, flagVars, optVars, valVars, hookVars>>

MonitorConfigMap ==
    /\ At("MonitorConfigMap")
    /\ \/ Fatal
       \/ Proceed("VerifyConfiguration")
    /\ UNCHANGED <<operatorNamespace, crds, bootConfig, registered, started>>
    /\ UNCHANGED <<envVars, flagVars, optVars, valVars, hookVars>>

(* utils.UseExternalElastic(bootConfig): the settings declare external log *)
(* storage.  The empty ConfigMap declares nothing.                         *)
UseExternalElastic(cfg) == cfg = "external"

(* options.ElasticExternal *)
ElasticExternal == UseExternalElastic(bootConfig)

InternalCertSecret == "render.TigeraElasticsearchInternalCertSecret"
ExternalCertsSecret == "logstorage.ExternalCertsSecret"

(* cs.CoreV1().Secrets(render.ElasticsearchNamespace).Get(ctx, name) in a  *)
(* cluster that holds the secrets in present, with an API that may fail.   *)
GetSecret(name, present, apiFails) ==
    IF apiFails THEN "Error"
    ELSE IF name \in present THEN "Found" ELSE "NotFound"

(* Mutant: the check looks for the secret of the declared topology. *)
SecretToCheck_SameTopology(external) ==
    IF external THEN ExternalCertsSecret ELSE InternalCertSecret

(* The secret verifyConfiguration asks for. *)
SecretToCheck(external) ==
    IF external THEN InternalCertSecret ELSE ExternalCertsSecret

(* verifyConfiguration's result for the answer to its one query. *)
verifyConfiguration(res) == IF res = "NotFound" THEN "nil" ELSE "error"

VerifyConfiguration ==
    /\ At("VerifyConfiguration")
    /\ \E present \in SUBSET { InternalCertSecret, ExternalCertsSecret },
          apiFails \in BOOLEAN :
         LET name == SecretToCheck(ElasticExternal)
             res == GetSecret(name, present, apiFails)
         IN /\ verified' = [queried |-> {name}, res |-> res]
            /\ IF verifyConfiguration(res) = "nil"
               THEN Proceed("AddToManager")
               ELSE Fatal
    /\ UNCHANGED <<operatorNamespace, crds, bootConfig, registered, started>>
    /\ UNCHANGED <<envVars, flagVars, valVars, hookVars>>
    /\ UNCHANGED <<clusterDomain, nameservers, kubernetesVersion>>

AddToManager ==
    /\ At("AddToManager")
    /\ \/ Fatal /\ UNCHANGED registered
       \/ Proceed("MgrStart") /\ registered' = TRUE
    /\ UNCHANGED <<operatorNamespace, crds, bootConfig, started>>
    /\ UNCHANGED <<envVars, flagVars, optVars, valVars, hookVars>>

(* mgr.Start(ctx) is entered: the manager serves. *)
MgrStart ==
    /\ At("MgrStart")
    /\ Proceed("Serving")
    /\ started' = TRUE
    /\ UNCHANGED <<operatorNamespace, crds, bootConfig, registered>>
    /\ UNCHANGED <<envVars, flagVars, optVars, valVars, hookVars>>

(* Mutant: mgr.Start returns nil without waiting for ctx. *)
MgrStartStopped_BeforeCancel ==
    /\ At("Serving")
    /\ ProcessEnds
    /\ exitCode' = 0
    /\ UNCHANGED <<pc, calls, errs, operatorNamespace, crds, bootConfig, registered, started>>
    /\ UNCHANGED <<envVars, flagVars, optVars, valVars, hookVars>>

(* mgr.Start returns nil once ctx is cancelled; main returns. *)
MgrStartStopped ==
    /\ At("Serving")
    /\ ctxCancelled
    /\ ProcessEnds
    /\ exitCode' = 0
    /\ UNCHANGED <<pc, calls, errs, operatorNamespace, crds, bootConfig, registered, started>>
    /\ UNCHANGED <<envVars, flagVars, optVars, valVars, hookVars>>

(* mgr.Start returns an error while it starts or runs. *)
MgrStartFails ==
    /\ At("Serving")
    /\ ~ctxCancelled
    /\ ProcessEnds
    /\ exitCode' = 1
    /\ errs' = errs \cup {"MgrStart"}
    /\ UNCHANGED <<pc, calls, operatorNamespace, crds, bootConfig, registered, started>>
    /\ UNCHANGED <<envVars, flagVars, optVars, valVars, hookVars>>

Main ==
    \/ GetConfig
    \/ SgSetup
    \/ PreDeleteSkipped
    \/ HookDelete
    \/ HookWaitPoll
    \/ HookWake
    \/ WaitUntilActiveReturns
    \/ WaitUntilActiveCancelled
    \/ NewManager
    \/ EnsureCRDs
    \/ SpawnWatcher
    \/ NewClientset
    \/ AutoDiscoverProvider
    \/ MultiTenant
    \/ RequiresTigeraSecure
    \/ GetClusterDomain
    \/ Nameservers
    \/ GetKubernetesVersion
    \/ CheckNamespace
    \/ LoadBootConfig
    \/ MonitorConfigMap
    \/ VerifyConfiguration
    \/ AddToManager
    \/ MgrStart
    \/ MgrStartStopped
    \/ MgrStartFails

----------------------------------------------------------------------------
(* The termination goroutine. *)

(* Mutant: a return that does not run cancel(). *)
WatcherReturn_NoCancel ==
    /\ wpc' = "done"
    /\ UNCHANGED ctxCancelled

(* return, which runs the deferred cancel(). *)
WatcherReturn ==
    /\ wpc' = "done"
    /\ ctxCancelled' = TRUE

(* <-sigHandler.Done() *)
WatcherSignalled ==
    /\ ~exited
    /\ wpc = "WaitSignal"
    /\ sig
    /\ wpc' = "InitialPoll"
    /\ UNCHANGED <<ctxCancelled, retries, qres, slept, waited, log>>
    /\ UNCHANGED <<mainVars, envVars, flagVars, valVars>>

(* Mutant: the bound is tested with > instead of >=. *)
RetryOrGiveUp_OffByOne ==
    IF retries > MaxRetries
    THEN /\ log' = log \cup {"TooManyRetries"}
         /\ WatcherReturn
         /\ UNCHANGED <<retries, slept, waited>>
    ELSE /\ retries' = retries + 1
         /\ wpc' = "RetrySleep"
         /\ slept' = 0
         /\ UNCHANGED <<ctxCancelled, waited, log>>

(* else if err != nil: give up after MaxRetries retries, else back off. *)
RetryOrGiveUp ==
    IF retries >= MaxRetries
    THEN /\ log' = log \cup {"TooManyRetries"}
         /\ WatcherReturn
         /\ UNCHANGED <<retries, slept, waited>>
    ELSE /\ retries' = retries + 1
         /\ wpc' = "RetrySleep"
         /\ slept' = 0
         /\ UNCHANGED <<ctxCancelled, waited, log>>

(* Mutant: the DeletionTimestamp test is missing. *)
CheckDeletionTimestamp_AlwaysWait(r) ==
    /\ log' = log \cup {"Waiting"}
    /\ waited' = 0
    /\ retries' = 0
    /\ wpc' = "Wait"
    /\ UNCHANGED <<ctxCancelled, slept>>

(* Success: return unless instance.DeletionTimestamp is set, else arm the  *)
(* timer.  The retry loop is left for good and retries is not read again:  *)
(* the model drops its value there.                                        *)
CheckDeletionTimestamp(r) ==
    IF r = "Present"
    THEN /\ WatcherReturn
         /\ UNCHANGED <<retries, slept, waited, log>>
    ELSE /\ log' = log \cup {"Waiting"}
         /\ waited' = 0
         /\ retries' = 0
         /\ wpc' = "Wait"
         /\ UNCHANGED <<ctxCancelled, slept>>

(* One iteration of the retry loop. *)
InitialPoll ==
    /\ ~exited
    /\ wpc = "InitialPoll"
    /\ \E r \in QueryResults :
         /\ qres' = r
         /\ CASE r = "NotFound" ->
                   /\ WatcherReturn
                   /\ UNCHANGED <<retries, slept, waited, log>>
              [] r = "Error" -> RetryOrGiveUp
              [] OTHER -> CheckDeletionTimestamp(r)
    /\ UNCHANGED <<mainVars, envVars, flagVars, valVars>>

(* time.Sleep(1 * time.Second) of the retry loop is over. *)
RetryWake ==
    /\ ~exited
    /\ wpc = "RetrySleep"
    /\ slept >= RetrySleep
    /\ wpc' = "InitialPoll"
    /\ slept' = 0
    /\ qres' = "none"
    /\ UNCHANGED <<ctxCancelled, retries, waited, log>>
    /\ UNCHANGED <<mainVars, envVars, flagVars, valVars>>

(* Mutant: the deadline is tested one second late. *)
TimedOut_Late == waited > GracePeriod

(* case <-timeout: the timer armed by time.After(to) has fired. *)
TimedOut == waited >= GracePeriod

(* Mutant: NotFound is handled like any other error. *)
WaitQuery_NotFoundIsError(r) ==
    /\ wpc' = "WaitSleep"
    /\ slept' = 0
    /\ UNCHANGED <<ctxCancelled, log>>

(* Mutant: a failed query ends the wait. *)
WaitQuery_ErrorEndsWait(r) ==
    IF r \in { "NotFound", "Error" }
    THEN /\ log' = log \cup {"Complete"}
         /\ WatcherReturn
         /\ UNCHANGED slept
    ELSE /\ wpc' = "WaitSleep"
         /\ slept' = 0
         /\ UNCHANGED <<ctxCancelled, log>>

(* default: query, return on NotFound, else sleep. *)
WaitQuery(r) ==
    IF r = "NotFound"
    THEN /\ log' = log \cup {"Complete"}
         /\ WatcherReturn
         /\ UNCHANGED slept
    ELSE /\ wpc' = "WaitSleep"
         /\ slept' = 0
         /\ UNCHANGED <<ctxCancelled, log>>

(* One iteration of the bounded wait. *)
WaitPoll ==
    /\ ~exited
    /\ wpc = "Wait"
    /\ IF TimedOut
       THEN /\ log' = log \cup {"TimedOut"}
            /\ WatcherReturn
            /\ UNCHANGED <<qres, slept>>
       ELSE \E r \in QueryResults :
              /\ qres' = r
              /\ WaitQuery(r)
    /\ UNCHANGED <<retries, waited>>
    /\ UNCHANGED <<mainVars, envVars, flagVars, valVars>>

(* Mutant: the bounded wait polls without sleeping. *)
WaitWake_NoSleep ==
    /\ ~exited
    /\ wpc = "WaitSleep"
    /\ wpc' = "Wait"
    /\ slept' = 0
    /\ qres' = "none"
    /\ UNCHANGED <<ctxCancelled, retries, waited, log>>
    /\ UNCHANGED <<mainVars, envVars, flagVars, valVars>>

(* time.Sleep(1 * time.Second) of the bounded wait is over. *)
WaitWake ==
    /\ ~exited
    /\ wpc = "WaitSleep"
    /\ slept >= WaitSleep
    /\ wpc' = "Wait"
    /\ slept' = 0
    /\ qres' = "none"
    /\ UNCHANGED <<ctxCancelled, retries, waited, log>>
    /\ UNCHANGED <<mainVars, envVars, flagVars, valVars>>

Watcher ==
    \/ WatcherSignalled
    \/ InitialPoll
    \/ RetryWake
    \/ WaitPoll
    \/ WaitWake

(* One second passes while the goroutine sleeps. *)
Tick ==
    /\ ~exited
    /\ \/ wpc = "RetrySleep" /\ slept < RetrySleep + MaxLate
       \/ wpc = "WaitSleep" /\ slept < WaitSleep + MaxLate
    /\ slept' = slept + 1
    /\ waited' = (IF wpc = "WaitSleep" THEN waited + 1 ELSE waited)
    /\ UNCHANGED <<ctxCancelled, wpc, retries, qres, log>>
    /\ UNCHANGED <<mainVars, envVars, flagVars, valVars>>

----------------------------------------------------------------------------
(* The environment. *)

(* SIGTERM or SIGINT: ctrl.SetupSignalHandler cancels sigHandler. *)
Signal ==
    /\ ~exited
    /\ ~sig
    /\ sig' = TRUE
    /\ UNCHANGED <<active, installation>>
    /\ UNCHANGED <<mainVars, watcherVars, flagVars, valVars>>

BecomeActive ==
    /\ ~exited
    /\ ~active
    /\ active' = TRUE
    /\ UNCHANGED <<sig, installation>>
    /\ UNCHANGED <<mainVars, watcherVars, flagVars, valVars>>

InstallationChanges ==
    /\ ~exited
    /\ \/ installation = "absent" /\ installation' = "present"
       \/ installation = "present" /\ installation' = "deleting"
       \/ installation = "deleting" /\ installation' = "absent"
    /\ UNCHANGED <<active, sig>>
    /\ UNCHANGED <<mainVars, watcherVars, flagVars, valVars>>

Env ==
    \/ Signal
    \/ BecomeActive
    \/ InstallationChanges

----------------------------------------------------------------------------

Next ==
    \/ Main
    \/ Watcher
    \/ Tick
    \/ Env

Spec == Init /\ [][Next]_vars

(* The process does not stop while a thread of it can run or a sleep is    *)
(* pending; the environment owes nothing.                                  *)
FairSpec ==
    /\ Spec
    /\ WF_vars(Main \/ Watcher \/ Tick)

----------------------------------------------------------------------------
(* Properties of the termination goroutine. *)

InitialPollStates == { "InitialPoll", "RetrySleep" }
WaitStates == { "Wait", "WaitSleep" }

(* A step of the bounded wait that issues a query. *)
WaitPollStep == wpc = "Wait" /\ (wpc' = "WaitSleep" \/ "Complete" \in log')

(* C1: ctx is cancelled only after the termination goroutine has finished: *)
(* never before a signal was received, never while the goroutine waits for *)
(* the signal, is in its initial poll or in its bounded wait; and every    *)
(* way the goroutine finishes cancels it.                                  *)
C1_CancelOnlyAfterWatcher ==
    /\ ctxCancelled => sig /\ wpc \in { "done", "dead" }
    /\ wpc \in { "unspawned", "WaitSignal" } \cup InitialPollStates \cup WaitStates
         => ~ctxCancelled
    /\ wpc = "done" => ctxCancelled

C1_Witness == wpc = "done" /\ ctxCancelled /\ "TimedOut" \in log

(* C2: once the bounded wait is armed and no poll finds the Installation   *)
(* absent, the goroutine finishes by the timeout and in no other way: not  *)
(* before 60 seconds have passed, and at its first loop iteration after    *)
(* they have, logging the timeout warning.  Finishing cancels ctx; a       *)
(* manager that is serving then stops and the process exits with status 0. *)
C2_Invariant ==
    /\ "TimedOut" \in log =>
         /\ "Waiting" \in log
         /\ "Complete" \notin log
         /\ ctxCancelled
         /\ wpc = "done" => waited >= 60
    /\ wpc = "done" /\ "Waiting" \in log /\ "Complete" \notin log => "TimedOut" \in log
    /\ wpc = "WaitSleep" => waited - slept < 60
    /\ wpc = "WaitSleep" => ENABLED (Tick \/ WaitWake)
    /\ wpc = "Wait" => ENABLED WaitPoll
    /\ exited /\ "TimedOut" \in log /\ pc = "Serving" => exitCode = 0
    /\ ~exited /\ ctxCancelled /\ pc = "Serving" => ENABLED MgrStartStopped

C2_Eventually ==
    /\ (wpc \in WaitStates) ~> (wpc \in { "done", "dead" })
    /\ ("TimedOut" \in log /\ pc = "Serving") ~> (exited /\ exitCode = 0)

C3_Invariant ==
    /\ wpc = "RetrySleep" => retries \in 1..5 /\ qres = "Error"
    /\ "TooManyRetries" \in log =>
         /\ "Waiting" \notin log
         /\ ctxCancelled
         /\ wpc \in { "done", "dead" }
         /\ wpc = "done" => retries = 5 /\ qres = "Error"

C3_RetryBound ==
    /\ []C3_Invariant
    /\ [][ wpc = "InitialPoll" /\ qres' = "Error" =>
             IF retries < 5
             THEN wpc' = "RetrySleep" /\ retries' = retries + 1 /\ slept' = 0
                  /\ log' = log
             ELSE wpc' = "done" /\ log' = log \cup {"TooManyRetries"} ]_vars
    /\ [][ wpc = "RetrySleep" /\ wpc' \notin { "RetrySleep", "dead" } =>
             slept >= 1 /\ wpc' = "InitialPoll" ]_vars

C3_Witness == wpc = "done" /\ "TooManyRetries" \in log

(* C4: when the first query that succeeds finds the Installation absent,   *)
(* or present without a deletion timestamp, the goroutine finishes in that *)
(* step: the bounded wait is not armed, and a finished goroutine issues no *)
(* query and does not sleep.                                               *)
C4_ImmediateExit ==
    /\ [][ wpc = "InitialPoll" /\ qres' \in { "NotFound", "Present" } =>
             /\ wpc' = "done"
             /\ ctxCancelled'
             /\ log' = log
             /\ "Waiting" \notin log' ]_vars
    /\ [][ wpc = "done" =>
             /\ wpc' \in { "done", "dead" }
             /\ wpc' = "done" => UNCHANGED <<qres, slept, waited, retries, log>> ]_vars

C4_Witness == wpc = "done" /\ qres = "Present" /\ log = {} /\ retries > 0

(* C5: a poll of the bounded wait that finds the Installation absent ends  *)
(* the goroutine in that step, reporting "Graceful termination complete",  *)
(* fewer than 60 seconds after the wait began and with no timeout logged.  *)
C5_Invariant ==
    "Complete" \in log =>
        /\ "Waiting" \in log
        /\ "TimedOut" \notin log
        /\ ctxCancelled
        /\ wpc = "done" => waited < 60 /\ qres = "NotFound"

C5_GracefulComplete ==
    /\ []C5_Invariant
    /\ [][ wpc = "Wait" /\ qres' = "NotFound" =>
             /\ wpc' = "done"
             /\ waited < 60
             /\ log' = log \cup {"Complete"} ]_vars

C5_Witness == wpc = "done" /\ "Complete" \in log /\ waited >= 10

(* C6 as stated: consecutive polls of the bounded wait are 5 seconds       *)
(* apart.                                                                  *)
C6_PollsEveryFiveSeconds ==
    [][ wpc = "WaitSleep" /\ wpc' = "Wait" => slept >= 5 ]_vars

(* C6, amended: in the bounded wait every poll that does not end the wait  *)
(* is followed by a sleep of (at least) 1 second before the next one, and  *)
(* no poll is issued 60 seconds or more after the wait began.              *)
C6_PollsEverySecond ==
    /\ [][ wpc = "WaitSleep" /\ wpc' = "Wait" => slept >= 1 ]_vars
    /\ [][ WaitPollStep => waited < 60 ]_vars
    /\ [][ wpc = "Wait" /\ wpc' = "WaitSleep" => slept' = 0 ]_vars
    /\ [](wpc = "WaitSleep" => waited - slept < 60)

C6_Witness == wpc = "Wait" /\ waited = 1 /\ qres = "none"

----------------------------------------------------------------------------
(* Properties of the startup path. *)

(* The steps that follow the spawning of the termination goroutine. *)
FromSpawn == After("SpawnWatcher") \cup { "Serving" }

(* The goroutine has consumed the signal. *)
ShuttingDown == wpc \in InitialPollStates \cup WaitStates \cup { "done" }

(* C7: a signal that arrives while the process is blocked in               *)
(* WaitUntilActive keeps it from ever going further: no manager is         *)
(* created, no goroutine spawned, no controller registered, the manager    *)
(* never started; the only step left to the main path is to exit.          *)
C7_Invariant ==
    /\ sig /\ pc = "WaitUntilActive" =>
         /\ wpc = "unspawned"
         /\ ~registered
         /\ ~started
         /\ calls \cap After("WaitUntilActive") = {}
         /\ ~exited => ENABLED WaitUntilActiveCancelled
    /\ registered \/ started => "WaitUntilActive" \in calls

C7_NoRunAfterSignalWhilePassive ==
    /\ []C7_Invariant
    /\ [][ sig /\ pc = "WaitUntilActive" =>
             pc' = "WaitUntilActive" /\ (~exited /\ pc' = pc /\ calls' # calls => exited') ]_vars

C7_Witness == exited /\ sig /\ pc = "WaitUntilActive" /\ ~active

(* The same as progress, under FairSpec. *)
C7_Eventually == (sig /\ pc = "WaitUntilActive") ~> exited

(* C8 as stated: the goroutine exists only once the controllers are        *)
(* registered, and it consumes the signal only while the manager runs.     *)
C8_ShutdownOnlyFromRunning ==
    /\ wpc \notin { "unspawned", "dead" } => registered
    /\ ShuttingDown => started

(* C8, amended: the goroutine is spawned after the CRD bootstrap and       *)
(* before discovery; it consumes no signal and performs no poll while the  *)
(* main path is still waiting to become active or bootstrapping.  (It can  *)
(* consume the signal during discovery and the preflight checks, and the   *)
(* main path can still register the controllers and start the manager      *)
(* afterwards: C8_Witness.)                                                *)
C8_SpawnedBeforeDiscovery ==
    /\ pc \in FromSpawn <=> wpc # "unspawned"
    /\ wpc = "unspawned" => qres = "none" /\ log = {} /\ ~ctxCancelled
    /\ ShuttingDown => sig

C8_Witness == wpc = "done" /\ ctxCancelled /\ pc = "MgrStart" /\ registered /\ ~exited

(* C9: the startup steps run in program order, and an error of provider,   *)
(* tenancy or enterprise-feature detection ends the process with status 1  *)
(* at that step: nothing after it is executed.                             *)
Detection == { "AutoDiscoverProvider", "MultiTenant", "RequiresTigeraSecure" }

(* Steps main takes only in some run modes. *)
OptionalSteps == { "SgSetup", "PreDelete", "EnsureCRDs" }

InOrder ==
    IF pc = "Serving"
    THEN calls \cup OptionalSteps = { StartupOrder[i] : i \in 1..Len(StartupOrder) }
    ELSE /\ calls \subseteq Before(pc) \cup {pc}
         /\ Before(pc) \ OptionalSteps \subseteq calls
         /\ pc \in calls <=> exited

C9_FatalDetection ==
    /\ InOrder
    /\ \A step \in Detection :
         step \in errs =>
           /\ exited
           /\ exitCode = 1
           /\ pc = step
           /\ calls \cap After(step) = {}
           /\ operatorNamespace = "unread"
           /\ bootConfig = "unset"
           /\ ~registered
           /\ ~started

C9_Witness == "MultiTenant" \in errs /\ exited

(* C10: an operator namespace that is one of the managed namespaces ends   *)
(* the process with status 1 at the namespace check: the bootstrap config  *)
(* is not loaded, no controller is registered, the manager is not started. *)
C10_BadNamespaceFatal ==
    /\ operatorNamespace \in BadNamespaces =>
         /\ exited
         /\ exitCode = 1
         /\ pc = "CheckNamespace"
         /\ calls \cap After("CheckNamespace") = {}
         /\ bootConfig = "unset"
         /\ ~registered
         /\ ~started
    /\ "LoadBootConfig" \in calls => operatorNamespace \in Namespaces \ BadNamespaces

C10_Witness == operatorNamespace = "render.ManagerNamespace" /\ exited

Passed(step) == pc \in After(step) \cup { "Serving" }

(* C11: verifyConfiguration asks for one secret, that of the topology      *)
(* opposite to the declared one (the internal-ES cert when ElasticExternal,*)
(* the external certs otherwise).  It returns nil exactly when the answer  *)
(* is NotFound; when the secret exists or the query fails otherwise, the   *)
(* process ends with status 1 at this step and no controller is registered.*)
C11_StorageTopologyCheck ==
    /\ verified.res = "none" <=> "VerifyConfiguration" \notin calls
    /\ "VerifyConfiguration" \in calls =>
         /\ verified.queried =
               { IF ElasticExternal THEN InternalCertSecret ELSE ExternalCertsSecret }
         /\ verified.res \in { "NotFound", "Found", "Error" }
         /\ verified.res = "NotFound" <=> "VerifyConfiguration" \notin errs
         /\ verified.res = "NotFound" <=> Passed("VerifyConfiguration")
         /\ verified.res # "NotFound" =>
              /\ exited
              /\ exitCode = 1
              /\ pc = "VerifyConfiguration"
              /\ ~registered
              /\ ~started
    /\ registered => verified.res = "NotFound"

C11_Witness ==
    /\ ElasticExternal
    /\ verified = [queried |-> {InternalCertSecret}, res |-> "Found"]
    /\ exited

(* C12: with --bootstrap-crds, once the CRDs are installed the process     *)
(* ends with status 0 at that step: the termination goroutine is not       *)
(* started, no later step runs, no controller is registered, the manager   *)
(* is not started.  With --manage-crds alone the CRDs are ensured and      *)
(* startup goes on; without either flag crds.Ensure is not called.         *)
C12_BootstrapOnly ==
    /\ bootstrapCRDs =>
         /\ pc \in Before("EnsureCRDs") \cup { "EnsureCRDs" }
         /\ wpc = "unspawned"
         /\ calls \cap After("EnsureCRDs") = {}
         /\ ~ctxCancelled
         /\ ~registered
         /\ ~started
    /\ bootstrapCRDs /\ crds =>
         /\ exited
         /\ exitCode = 0
         /\ pc = "EnsureCRDs"
    /\ ~bootstrapCRDs /\ manageCRDs =>
         /\ crds <=> Passed("EnsureCRDs")
         /\ exited /\ pc = "EnsureCRDs" => exitCode = 1 /\ "EnsureCRDs" \in errs
    /\ ~bootstrapCRDs /\ ~manageCRDs => ~crds /\ "EnsureCRDs" \notin calls

C12_Witness == bootstrapCRDs /\ crds /\ exited /\ exitCode = 0

(* C13: a NotFound answer to the bootstrap configmap read is no error:     *)
(* startup goes on with the empty ConfigMap, and the storage topology is   *)
(* UseExternalElastic of that empty ConfigMap.  Any other error ends the   *)
(* process with status 1 at the read, before verifyConfiguration and       *)
(* before any controller is registered.                                    *)
C13_BootConfigBestEffort ==
    /\ bootConfig = "NotFound" =>
         /\ "LoadBootConfig" \notin errs
         /\ Passed("LoadBootConfig")
         /\ ElasticExternal = UseExternalElastic("NotFound")
         /\ "VerifyConfiguration" \in calls =>
              verified.queried = { SecretToCheck(UseExternalElastic("NotFound")) }
    /\ "LoadBootConfig" \in errs =>
         /\ exited
         /\ exitCode = 1
         /\ pc = "LoadBootConfig"
         /\ bootConfig = "unset"
         /\ calls \cap After("LoadBootConfig") = {}
         /\ verified.res = "none"
         /\ ~registered
         /\ ~started
    /\ "LoadBootConfig" \in calls /\ "LoadBootConfig" \notin errs =>
         bootConfig \in { "NotFound", "internal", "external" }

C13_Witness == bootConfig = "NotFound" /\ registered

NonFatalLookups == { "GetClusterDomain", "Nameservers", "GetKubernetesVersion" }

(* C14: an error of the cluster-domain, nameserver or Kubernetes-version   *)
(* lookup never ends the process: the option takes its default (the        *)
(* default cluster domain, no nameservers, version 1.18) and the main path *)
(* goes on to the namespace check.                                         *)
C14_NonFatalLookups ==
    /\ \A step \in NonFatalLookups :
         /\ exited => pc # step
         /\ step \in calls => Passed(step)
    /\ "GetClusterDomain" \in errs => clusterDomain = DefaultClusterDomain
    /\ "Nameservers" \in errs => nameservers = << >>
    /\ "GetKubernetesVersion" \in errs =>
         kubernetesVersion = [Major |-> 1, Minor |-> 18]
    /\ "GetKubernetesVersion" \in calls =>
         pc \in { "CheckNamespace" } \cup After("CheckNamespace") \cup { "Serving" }
    /\ pc = "CheckNamespace" /\ ~exited => ENABLED CheckNamespace

C14_Witness ==
    /\ NonFatalLookups \subseteq errs
    /\ "CheckNamespace" \in calls
    /\ pc = "LoadBootConfig"
    /\ operatorNamespace = "tigera-operator"

----------------------------------------------------------------------------
(* The validator, applied to bounded sets of documents.  The process is    *)
(* idle meanwhile: validation reads the document and nothing else.         *)

(* Bounds: entries of ad.CIDRS, entries of ipPools, validation calls on    *)
(* one document.                                                           *)
MaxCIDRs == 2
MaxPools == 2
MaxValidations == 2

SeqsUpTo(S, n) == UNION { [1..k -> S] : k \in 0..n }

ProcessIdle ==
    /\ MainInit
    /\ ~bootstrapCRDs
    /\ ~manageCRDs
    /\ ~sgSetup
    /\ ~preDelete
    /\ ~active
    /\ installation = "absent"

(* "300.0.0.0/8" does not parse. *)
CIDRStrings == { "10.0.0.0/8", "300.0.0.0/8" }

Ads ==
    [ interface : { "", "eth.*" },
      skipInterface : { "", "docker.*" },
      canReach : { "", "8.8.8.8" },
      firstFound : { << >>, << FALSE >>, << TRUE >> },
      cidrs : SeqsUpTo(CIDRStrings, MaxCIDRs),
      kubernetes : BOOLEAN ]

AdInit ==
    /\ ProcessIdle
    /\ instance = DefaultInstance
    /\ ad \in Ads
    /\ verdicts = << >>
    /\ validated = << >>

(* err := validateNodeAddressDetection(ad) *)
ValidateAd ==
    /\ Len(verdicts) < MaxValidations
    /\ verdicts' = Append(verdicts, validateNodeAddressDetection(ad))
    /\ UNCHANGED <<instance, ad, validated>>
    /\ UNCHANGED <<mainVars, watcherVars, envVars, flagVars>>

AdNext == ValidateAd

AdSpec == AdInit /\ [][AdNext]_vars

(* The autodetection methods a config sets. *)
MethodsSet(a) ==
    { m \in { "interface", "skipInterface", "canReach", "firstFound", "cidrs",
              "kubernetes" } :
        \/ m = "interface" /\ a.interface # ""
        \/ m = "skipInterface" /\ a.skipInterface # ""
        \/ m = "canReach" /\ a.canReach # ""
        \/ m = "firstFound" /\ a.firstFound = << TRUE >>
        \/ m = "cidrs" /\ a.cidrs # << >>
        \/ m = "kubernetes" /\ a.kubernetes }

AllCIDRsParse(a) == \A i \in DOMAIN a.cidrs : a.cidrs[i] \in ParseableCIDRs

(* C16 as stated: with more than one method set the error is the           *)
(* exclusivity error whatever the values.  It is not when an entry of      *)
(* cidrs does not parse.                                                   *)
C16_AlwaysExclusivityError ==
    \A i \in DOMAIN verdicts :
        Cardinality(MethodsSet(ad)) > 1 => verdicts[i] = Err("ExclusiveAutodetection")

(* C16: with more than one autodetection method set                       *)
(* validateNodeAddressDetection fails, whichever methods are combined:     *)
(* with the invalid-CIDR error when an entry of cidrs does not parse,      *)
(* with the exclusivity error otherwise.  With at most one method set and  *)
(* all cidrs parseable it passes.                                          *)
C16_ExclusiveMethods ==
    \A i \in DOMAIN verdicts :
        /\ Cardinality(MethodsSet(ad)) > 1 =>
             verdicts[i] = IF AllCIDRsParse(ad)
                           THEN Err("ExclusiveAutodetection")
                           ELSE Err("InvalidCIDR")
        /\ Cardinality(MethodsSet(ad)) <= 1 /\ AllCIDRsParse(ad) => verdicts[i] = Nil
        /\ ~AllCIDRsParse(ad) => verdicts[i] = Err("InvalidCIDR")

C16_Witness ==
    /\ MethodsSet(ad) = { "cidrs", "kubernetes" }
    /\ ~AllCIDRsParse(ad)
    /\ verdicts = << Err("InvalidCIDR") >>

(* CIDRs as the sequence of their characters. *)
IPv4CIDR == << "1", "0", ".", "0", ".", "0", ".", "0", "/", "8" >>
IPv6CIDR == << "f", "d", "0", "0", ":", ":", "/", "8" >>

Encapsulations == { "", "None", "IPIP", "IPIPCrossSubnet", "VXLAN", "VXLANCrossSubnet" }

Pools == [ cidr : { IPv4CIDR, IPv6CIDR }, encapsulation : Encapsulations ]

(* Autodetection configs: one method, and two methods. *)
FirstFoundAd == [DefaultAd EXCEPT !.firstFound = << TRUE >>]
TwoMethodsAd == [DefaultAd EXCEPT !.interface = "eth.*", !.kubernetes = TRUE]

(* A calicoNetwork section with the settings the pool rules read. *)
CalicoNetworkWith(dp, bgp, pools, v4, v6) ==
    [DefaultCalicoNetwork EXCEPT
        !.linuxDataplane = dp,
        !.bgp = bgp,
        !.ipPools = pools,
        !.nodeAddressAutodetectionV4 = v4,
        !.nodeAddressAutodetectionV6 = v6]

CNIs ==
    { << >> } \cup
    { << [type |-> t, ipam |-> i] >> :
        t \in { "Calico", "GKE", "AmazonVPC", "AzureVNET", "Flannel" },
        i \in { "Calico", "HostLocal", "AmazonVPC", "AzureVNET" } }

Providers == { "", "GKE", "EKS", "AKS" }

(* A document with the given network settings. *)
InstanceWith(cni, provider, cn) ==
    [DefaultInstance EXCEPT
        !.cni = cni,
        !.kubernetesProvider = provider,
        !.calicoNetwork = cn]

(* The documents validated vary in the network settings: every CNI, IPAM   *)
(* and provider, with no calicoNetwork section or with one of up to        *)
(* MaxPools pools.                                                         *)
ValInit ==
    /\ ProcessIdle
    /\ \E cni \in CNIs, provider \in Providers :
         \/ instance = InstanceWith(cni, provider, << >>)
         \/ \E dp \in { << >>, << "BPF" >> },
               bgp \in { << >>, << "Enabled" >>, << "Disabled" >> },
               pools \in SeqsUpTo(Pools, MaxPools),
               v4 \in { << >>, << FirstFoundAd >> },
               v6 \in { << >>, << FirstFoundAd >> } :
              instance =
                InstanceWith(cni, provider, << CalicoNetworkWith(dp, bgp, pools, v4, v6) >>)
    /\ ad = DefaultAd
    /\ verdicts = << >>
    /\ validated = << >>

(* err := validateCustomResource(instance) *)
(* Mutant: the call fills in a default of the document it validates. *)
ValidateInstance_FillsDefaults ==
    /\ Len(verdicts) < MaxValidations
    /\ verdicts' = Append(verdicts, validateCustomResource(instance))
    /\ validated' = Append(validated, instance)
    /\ instance' = [instance EXCEPT !.nodeUpdateStrategy = "OnDelete"]
    /\ UNCHANGED ad
    /\ UNCHANGED <<mainVars, watcherVars, envVars, flagVars>>

ValidateInstance ==
    /\ Len(verdicts) < MaxValidations
    /\ verdicts' = Append(verdicts, validateCustomResource(instance))
    /\ validated' = Append(validated, instance)
    /\ UNCHANGED <<instance, ad>>
    /\ UNCHANGED <<mainVars, watcherVars, envVars, flagVars>>

ValNext == ValidateInstance

ValSpec == ValInit /\ [][ValNext]_vars

ValTypeOK == \A i \in DOMAIN verdicts : Len(verdicts[i]) <= 2

(* Documents that can violate several rule groups at once. *)
RelativePath == << "o", "p", "t", "/", "x" >>

IPv6IPIPNetwork ==
    [DefaultCalicoNetwork EXCEPT
        !.bgp = << "Enabled" >>,
        !.ipPools = << [cidr |-> IPv6CIDR, encapsulation |-> "IPIP"] >>]

TwoMethodsNetwork ==
    [DefaultCalicoNetwork EXCEPT !.nodeAddressAutodetectionV4 = << TwoMethodsAd >>]

Workloads ==
    [ overridesValid : BOOLEAN,
      initContainers : { << >>, << "ebpf-bootstrap", "flexvol-driver", "mount-bpffs" >> } ]

OrderInstances ==
    { [DefaultInstance EXCEPT
          !.cni = cni,
          !.kubernetesProvider = provider,
          !.calicoNetwork = cn,
          !.flexVolumePath = flex,
          !.nodeUpdateStrategy = strategy,
          !.calicoNodeDaemonSet = ds,
          !.typhaDeployment = typha,
          !.azure = azure] :
        cni \in { << >>,
                  << [type |-> "Calico", ipam |-> "Calico"] >>,
                  << [type |-> "Calico", ipam |-> "AmazonVPC"] >>,
                  << [type |-> "GKE", ipam |-> "HostLocal"] >>,
                  << [type |-> "Flannel", ipam |-> "Calico"] >> },
        provider \in { "", "EKS" },
        cn \in { << >>, << DefaultCalicoNetwork >>, << IPv6IPIPNetwork >>,
                 << TwoMethodsNetwork >> },
        flex \in { NonePath, RelativePath },
        strategy \in { "RollingUpdate", "OnDelete" },
        ds \in { << >> } \cup { << w >> : w \in Workloads },
        typha \in { << >>, << [overridesValid |-> FALSE, initContainers |-> << >>] >> },
        azure \in { << >>, << "set" >> } }

OrderInit ==
    /\ ProcessIdle
    /\ instance \in OrderInstances
    /\ ad = DefaultAd
    /\ verdicts = << >>
    /\ validated = << >>

OrderSpec == OrderInit /\ [][ValNext]_vars

(* The rule groups a document violates, by their place in the order. *)
ViolatedGroups(in) ==
    IF in.cni = << >> THEN { 0 }
    ELSE { i \in DOMAIN RuleGroups(in) : RuleGroups(in)[i] # Nil }

Min(S) == CHOOSE x \in S : \A y \in S : x <= y

BothNodeDaemonSetRules(in) ==
    /\ in.calicoNodeDaemonSet # << >>
    /\ ~in.calicoNodeDaemonSet[1].overridesValid
    /\ in.calicoNodeDaemonSet[1].initContainers # << >>

(* C15 as stated: every failure reports one rule's violation.  The node    *)
(* daemonset's two checks are reported together.                           *)
C15_SingleCause ==
    \A i \in DOMAIN verdicts : Len(verdicts[i]) <= 1

(* C15: validateCustomResource is fail-fast: the groups of rules are       *)
(* evaluated in a fixed order and the error returned is that of the first  *)
(* violated group, whatever later groups are violated too.  It reports one *)
(* rule, except for the node daemonset overrides, whose two checks (the    *)
(* override validator and the init-container exclusion) both run and are   *)
(* reported together when both fail.                                       *)
C15_FailFast ==
    \A i \in DOMAIN verdicts :
        LET violated == ViolatedGroups(instance)
            first == Min(violated)
            nodeBoth == /\ first = 4
                        /\ BothNodeDaemonSetRules(instance)
        IN /\ verdicts[i] = Nil <=> violated = {}
           /\ violated # {} =>
                /\ first = 0 => verdicts[i] = Err("CNIUndefined")
                /\ first > 0 => verdicts[i] = RuleGroups(instance)[first]
                /\ first = 3 /\ instance.flexVolumePath = RelativePath =>
                     verdicts[i] = Err("FlexVolumePath")
                /\ nodeBoth =>
                     verdicts[i] = << "NodeDaemonSetOverrides", "ExclusiveInitContainers" >>
                /\ ~nodeBoth => Len(verdicts[i]) = 1

C15_Witness ==
    /\ BothNodeDaemonSetRules(instance)
    /\ instance.azure # << >>
    /\ instance.typhaDeployment # << >>
    /\ verdicts = << << "NodeDaemonSetOverrides", "ExclusiveInitContainers" >> >>

(* The document has a calicoNetwork section and a non-Calico CNI plugin. *)
NonCalicoWithNetwork ==
    /\ instance.cni # << >>
    /\ instance.cni[1].type \in { "GKE", "AmazonVPC", "AzureVNET" }
    /\ instance.calicoNetwork # << >>

Failed(i) == verdicts[i] # Nil

(* C17 as stated: with a non-Calico CNI and a calicoNetwork section,       *)
(* validation fails when some pool has an encapsulation other than None    *)
(* or unset, and fails when BGP is Enabled, even without any pool.  The    *)
(* BGP test sits in the loop over the pools, so without pools it is never  *)
(* made.                                                                   *)
C17_NonCalicoEncapsulationAndBGP ==
    \A i \in DOMAIN verdicts :
        NonCalicoWithNetwork =>
          LET cn == instance.calicoNetwork[1]
          IN /\ (\E k \in DOMAIN cn.ipPools :
                    cn.ipPools[k].encapsulation \notin { "", "None" }) => Failed(i)
             /\ cn.bgp = << "Enabled" >> => Failed(i)

(* The pairs of CNI and IPAM plugin the rule accepts. *)
AcceptedPairs ==
    { << "Calico", "Calico" >>, << "Calico", "HostLocal" >>, << "GKE", "HostLocal" >>,
      << "AmazonVPC", "AmazonVPC" >>, << "AzureVNET", "AzureVNET" >> }

KnownPlugins == { "Calico", "GKE", "AmazonVPC", "AzureVNET" }

(* C18: the CNI/IPAM rule accepts exactly the pairs of AcceptedPairs.      *)
(* Any other pair and any unknown cni.type fail validation; an accepted    *)
(* pair never fails with the CNI/IPAM or the CNI type error, and with no   *)
(* calicoNetwork section and a provider the plugin allows it passes.       *)
(* Calico/Calico without calicoNetwork passes; Calico/AmazonVPC fails with *)
(* the CNI/IPAM compatibility error.                                       *)
C18_CNIIPAMPairs ==
    \A i \in DOMAIN verdicts :
        instance.cni # << >> =>
          LET cni == instance.cni[1]
              pair == << cni.type, cni.ipam >>
          IN /\ pair \notin AcceptedPairs => Failed(i)
             /\ cni.type \notin KnownPlugins => verdicts[i] = Err("InvalidCNIType")
             /\ pair \in AcceptedPairs =>
                  verdicts[i] \notin { Err("IPAMIncompatible"), Err("InvalidCNIType") }
             /\ /\ pair \in AcceptedPairs
                /\ instance.calicoNetwork = << >>
                /\ cni.type = "Calico" \/ instance.kubernetesProvider = ""
                => verdicts[i] = Nil
             /\ pair = << "Calico", "AmazonVPC" >> => verdicts[i] = Err("IPAMIncompatible")
             /\ /\ cni.type \in KnownPlugins
                /\ pair \notin AcceptedPairs
                /\ cni.type = "Calico" \/ instance.kubernetesProvider = ""
                => verdicts[i] = Err("IPAMIncompatible")

C18_Witness ==
    /\ instance.cni = << [type |-> "Calico", ipam |-> "AmazonVPC"] >>
    /\ verdicts = << Err("IPAMIncompatible") >>

(* C19: a non-Calico CNI plugin with a kubernetesProvider that is neither  *)
(* the plugin's own provider (GKE for GKE, EKS for AmazonVPC, AKS for      *)
(* AzureVNET) nor unset fails validation, with the provider error; with    *)
(* the Calico plugin the provider error is never reported.                 *)
C19_NativeProvider ==
    \A i \in DOMAIN verdicts :
        instance.cni # << >> =>
          LET type == instance.cni[1].type
              provider == instance.kubernetesProvider
              native == \/ type = "GKE" /\ provider = "GKE"
                        \/ type = "AmazonVPC" /\ provider = "EKS"
                        \/ type = "AzureVNET" /\ provider = "AKS"
          IN /\ type \in { "GKE", "AmazonVPC", "AzureVNET" } /\ provider # "" /\ ~native
                => verdicts[i] = Err("ProviderIncompatible")
             /\ type = "AmazonVPC" /\ provider \notin { "EKS", "" } => Failed(i)
             /\ verdicts[i] = Err("ProviderIncompatible") =>
                  type \in { "GKE", "AmazonVPC", "AzureVNET" } /\ provider # "" /\ ~native

C19_Witness ==
    /\ instance.cni = << [type |-> "AmazonVPC", ipam |-> "AmazonVPC"] >>
    /\ instance.kubernetesProvider = "GKE"
    /\ verdicts = << Err("ProviderIncompatible") >>

HasPool(cn, v6) ==
    \E k \in DOMAIN cn.ipPools : Contains(cn.ipPools[k].cidr, ":") = v6

(* The document with the autodetection fields that are unset given a       *)
(* single-method config.                                                   *)
WithAutodetection(in) ==
    LET cn == in.calicoNetwork[1]
    IN [in EXCEPT !.calicoNetwork =
          << [cn EXCEPT
                !.nodeAddressAutodetectionV4 =
                    IF @ = << >> THEN << FirstFoundAd >> ELSE @,
                !.nodeAddressAutodetectionV6 =
                    IF @ = << >> THEN << FirstFoundAd >> ELSE @] >>]

(* C20: with the BPF dataplane, a document with an IPv4 pool and           *)
(* nodeAddressAutodetectionV4 unset fails validation, and so does one      *)
(* with an IPv6 pool and nodeAddressAutodetectionV6 unset.  When the       *)
(* missing autodetection is the rule reported, setting the field to a      *)
(* single-method config removes that error, and the document passes if it  *)
(* violates no other rule: a Calico/Calico document with BGP enabled and   *)
(* IPv4 pools passes.                                                      *)
C20_BPFAutodetection ==
    \A i \in DOMAIN verdicts :
        instance.calicoNetwork # << >> /\ instance.cni # << >> =>
          LET cn == instance.calicoNetwork[1]
              bpf == cn.linuxDataplane = << "BPF" >>
              required == { Err("AutodetectionV4Required"), Err("AutodetectionV6Required") }
              fixed == validateCustomResource(WithAutodetection(instance))
          IN /\ bpf /\ HasPool(cn, FALSE) /\ cn.nodeAddressAutodetectionV4 = << >>
                => Failed(i)
             /\ bpf /\ HasPool(cn, TRUE) /\ cn.nodeAddressAutodetectionV6 = << >>
                => Failed(i)
             /\ verdicts[i] \in required =>
                  /\ bpf
                  /\ fixed \notin required
                  /\ fixed # Nil =>
                       validateCustomResource([instance EXCEPT
                           !.calicoNetwork[1].linuxDataplane = << >>]) = fixed
             /\ /\ bpf
                /\ instance.cni[1] = [type |-> "Calico", ipam |-> "Calico"]
                /\ cn.bgp = << "Enabled" >>
                /\ cn.ipPools # << >>
                /\ ~HasPool(cn, TRUE)
                => /\ verdicts[i] = IF cn.nodeAddressAutodetectionV4 = << >>
                                    THEN Err("AutodetectionV4Required")
                                    ELSE Nil
                   /\ fixed = Nil

C20_Witness ==
    /\ instance.cni = << [type |-> "Calico", ipam |-> "Calico"] >>
    /\ instance.calicoNetwork # << >>
    /\ instance.calicoNetwork[1].linuxDataplane = << "BPF" >>
    /\ instance.calicoNetwork[1].nodeAddressAutodetectionV4 = << >>
    /\ instance.calicoNetwork[1].bgp = << "Enabled" >>
    /\ Len(instance.calicoNetwork[1].ipPools) = 2
    /\ ~HasPool(instance.calicoNetwork[1], TRUE)
    /\ verdicts = << Err("AutodetectionV4Required") >>
    /\ validateCustomResource(WithAutodetection(instance)) = Nil

HasPoolWith(cn, v6, encapsulations) ==
    \E k \in DOMAIN cn.ipPools :
        /\ Contains(cn.ipPools[k].cidr, ":") = v6
        /\ cn.ipPools[k].encapsulation \in encapsulations

(* C21: a document with an IPv6 pool (a ':' in its CIDR) whose             *)
(* encapsulation is IPIP or IPIPCrossSubnet fails validation, whatever the *)
(* CNI, IPAM, provider, dataplane and BGP settings; when that pool is the  *)
(* first one and the CNI rules pass, the error is the IPv6 IPIP error.     *)
C21_IPv6IPIP ==
    \A i \in DOMAIN verdicts :
        instance.calicoNetwork # << >> =>
          LET cn == instance.calicoNetwork[1]
          IN /\ HasPoolWith(cn, TRUE, { "IPIP", "IPIPCrossSubnet" }) => Failed(i)
             /\ /\ instance.cni # << >>
                /\ CNIRules(instance) = Nil
                /\ cn.ipPools # << >>
                /\ cn.ipPools[1].cidr = IPv6CIDR
                /\ cn.ipPools[1].encapsulation \in { "IPIP", "IPIPCrossSubnet" }
                => verdicts[i] = Err("IPIPOnIPv6")
             /\ verdicts[i] = Err("IPIPOnIPv6") =>
                  HasPoolWith(cn, TRUE, { "IPIP", "IPIPCrossSubnet" })

C21_Witness ==
    /\ instance.cni = << [type |-> "Calico", ipam |-> "Calico"] >>
    /\ instance.calicoNetwork # << >>
    /\ instance.calicoNetwork[1].bgp = << "Enabled" >>
    /\ instance.calicoNetwork[1].linuxDataplane = << >>
    /\ instance.calicoNetwork[1].ipPools =
         << [cidr |-> IPv4CIDR, encapsulation |-> "VXLAN"],
            [cidr |-> IPv6CIDR, encapsulation |-> "IPIPCrossSubnet"] >>
    /\ verdicts = << Err("IPIPOnIPv6") >>

(* The document uses the Calico CNI with the given IPAM and has a          *)
(* calicoNetwork section.                                                  *)
CalicoWith(ipam) ==
    /\ instance.cni = << [type |-> "Calico", ipam |-> ipam] >>
    /\ instance.calicoNetwork # << >>

(* C22: with Calico CNI and Calico IPAM a pool with encapsulation IPIP,    *)
(* IPIPCrossSubnet or None fails validation unless BGP is Enabled (unset   *)
(* counts as not enabled); VXLAN and VXLANCrossSubnet pools need no BGP: a *)
(* document whose IPv4 pools are all VXLAN passes with BGP unset or        *)
(* Disabled.  With Calico CNI and HostLocal IPAM a VXLAN or                *)
(* VXLANCrossSubnet pool fails validation.                                 *)
C22_EncapsulationAndBGP ==
    \A i \in DOMAIN verdicts :
        /\ CalicoWith("Calico") =>
             LET cn == instance.calicoNetwork[1]
                 needBGP == \E k \in DOMAIN cn.ipPools :
                               cn.ipPools[k].encapsulation
                                 \in { "IPIP", "IPIPCrossSubnet", "None" }
             IN /\ needBGP /\ cn.bgp # << "Enabled" >> => Failed(i)
                /\ verdicts[i] \in { Err("IPIPRequiresBGP"), Err("UnencapsulatedRequiresBGP") }
                     => needBGP /\ cn.bgp # << "Enabled" >>
                /\ /\ cn.linuxDataplane = << >>
                   /\ \A k \in DOMAIN cn.ipPools :
                        /\ cn.ipPools[k].cidr = IPv4CIDR
                        /\ cn.ipPools[k].encapsulation \in { "VXLAN", "VXLANCrossSubnet" }
                   => verdicts[i] = Nil
                /\ /\ cn.linuxDataplane = << >>
                   /\ cn.bgp = << "Enabled" >>
                   /\ ~HasPool(cn, TRUE)
                   => verdicts[i] = Nil
        /\ CalicoWith("HostLocal") =>
             LET cn == instance.calicoNetwork[1]
             IN \/ ~\E k \in DOMAIN cn.ipPools :
                     cn.ipPools[k].encapsulation \in { "VXLAN", "VXLANCrossSubnet" }
                \/ Failed(i)

C22_Witness ==
    /\ CalicoWith("Calico")
    /\ instance.calicoNetwork[1].bgp = << >>
    /\ instance.calicoNetwork[1].linuxDataplane = << >>
    /\ instance.calicoNetwork[1].ipPools =
         << [cidr |-> IPv4CIDR, encapsulation |-> "VXLAN"],
            [cidr |-> IPv4CIDR, encapsulation |-> "None"] >>
    /\ verdicts = << Err("UnencapsulatedRequiresBGP") >>

(* Documents that vary in the CNI log settings: a resource.Quantity is    *)
(* its format (binary SI or not) and its value.                            *)
Quantities == [ binarySI : BOOLEAN, value : { 0, 100 } ]

LogInit ==
    /\ ProcessIdle
    /\ \E cni \in { << [type |-> "Calico", ipam |-> "Calico"] >>,
                   << [type |-> "GKE", ipam |-> "HostLocal"] >> } :
         \/ instance = [DefaultInstance EXCEPT !.cni = cni]
         \/ instance = [DefaultInstance EXCEPT !.cni = cni, !.logging = << [cni |-> << >>] >>]
         \/ \E count \in { << >>, << 0 >>, << 10 >> },
               size \in { << >> } \cup { << q >> : q \in Quantities },
               age \in { << >>, << -1 >>, << 0 >>, << 30 >> } :
              instance =
                [DefaultInstance EXCEPT
                    !.cni = cni,
                    !.logging = << [cni |-> << [logFileMaxCount |-> count,
                                                logFileMaxSize |-> size,
                                                logFileMaxAgeDays |-> age] >>] >>]
    /\ ad = DefaultAd
    /\ verdicts = << >>
    /\ validated = << >>

LogSpec == LogInit /\ [][ValNext]_vars

HasLoggingCNI == instance.logging # << >> /\ instance.logging[1].cni # << >>

(* C23: under the Calico CNI validation passes exactly when each of the    *)
(* log file count, size and age that is set is positive and the size, if   *)
(* set, is in a binary unit; under another CNI it passes exactly when      *)
(* logging.cni is absent.                                                  *)
C23_CNILogging ==
    \A i \in DOMAIN verdicts :
        IF instance.cni[1].type = "Calico"
        THEN HasLoggingCNI =>
               LET l == instance.logging[1].cni[1]
                   countOK == l.logFileMaxCount = << >> \/ l.logFileMaxCount[1] > 0
                   sizeOK == \/ l.logFileMaxSize = << >>
                             \/ /\ l.logFileMaxSize[1].binarySI
                                /\ l.logFileMaxSize[1].value > 0
                   ageOK == l.logFileMaxAgeDays = << >> \/ l.logFileMaxAgeDays[1] > 0
               IN /\ verdicts[i] = Nil <=> countOK /\ sizeOK /\ ageOK
                  /\ ~countOK => verdicts[i] = Err("LogFileMaxCount")
                  /\ countOK /\ ~sizeOK => verdicts[i] = Err("LogFileMaxSize")
                  /\ countOK /\ sizeOK /\ ~ageOK => verdicts[i] = Err("LogFileMaxAgeDays")
        ELSE /\ HasLoggingCNI => verdicts[i] = Err("LoggingNonCalicoCNI")
             /\ ~HasLoggingCNI => verdicts[i] = Nil

C23_Witness ==
    /\ instance.cni[1].type = "Calico"
    /\ HasLoggingCNI
    /\ instance.logging[1].cni[1].logFileMaxCount = << 10 >>
    /\ instance.logging[1].cni[1].logFileMaxSize = << [binarySI |-> FALSE, value |-> 100] >>
    /\ verdicts = << Err("LogFileMaxSize") >>

(* Node DaemonSet overrides that vary in their init containers; one name  *)
(* differs from "mount-bpffs" by a suffix only.                            *)
MaxInitContainers == 3

InitContainerNames == { "mount-bpffs", "ebpf-bootstrap", "flexvol-driver", "mount-bpffs-init" }

InitContainersInit ==
    /\ ProcessIdle
    /\ \E valid \in BOOLEAN,
          names \in SeqsUpTo(InitContainerNames, MaxInitContainers) :
         instance =
           [DefaultInstance EXCEPT
               !.calicoNodeDaemonSet =
                   << [overridesValid |-> valid, initContainers |-> names] >>]
    /\ ad = DefaultAd
    /\ verdicts = << >>
    /\ validated = << >>

InitContainersSpec == InitContainersInit /\ [][ValNext]_vars

Names(initContainers) == { initContainers[i] : i \in DOMAIN initContainers }

(* The joined error err carries the error of the rule. *)
Reports(err, rule) == \E k \in DOMAIN err : err[k] = rule

Without(initContainers, name) == SelectSeq(initContainers, LAMBDA c : c # name)

(* C24: the Node DaemonSet override is refused with the mutual-exclusion   *)
(* error exactly when its init containers hold both "mount-bpffs" and      *)
(* "ebpf-bootstrap", wherever they stand and whatever else is there; with  *)
(* either name taken out validateExclusiveInitContainers passes.           *)
C24_ExclusiveInitContainers ==
    \A i \in DOMAIN verdicts :
        LET ds == instance.calicoNodeDaemonSet[1]
            both == { "mount-bpffs", "ebpf-bootstrap" } \subseteq Names(ds.initContainers)
        IN /\ both <=> Reports(verdicts[i], "ExclusiveInitContainers")
           /\ both <=> validateExclusiveInitContainers(ds.initContainers) # Nil
           /\ both /\ ds.overridesValid => verdicts[i] = Err("ExclusiveInitContainers")
           /\ ~both /\ ds.overridesValid => verdicts[i] = Nil
           /\ validateExclusiveInitContainers(Without(ds.initContainers, "mount-bpffs")) = Nil
           /\ validateExclusiveInitContainers(Without(ds.initContainers, "ebpf-bootstrap")) = Nil

C24_Witness ==
    /\ instance.calicoNodeDaemonSet[1].initContainers
          = << "ebpf-bootstrap", "flexvol-driver", "mount-bpffs" >>
    /\ instance.calicoNodeDaemonSet[1].overridesValid
    /\ verdicts = << Err("ExclusiveInitContainers") >>

(* Documents that vary in what the VPP rules read, with no pool or one    *)
(* IPv4 pool.                                                              *)
VppPools ==
    { << >>,
      << [cidr |-> IPv4CIDR, encapsulation |-> "VXLAN"] >>,
      << [cidr |-> IPv4CIDR, encapsulation |-> "IPIP"] >> }

VppInit ==
    /\ ProcessIdle
    /\ \E dp \in { << >>, << "VPP" >> },
          variant \in { "Calico", "TigeraSecureEnterprise" },
          cni \in { << [type |-> "Calico", ipam |-> "Calico"] >>,
                    << [type |-> "GKE", ipam |-> "HostLocal"] >> },
          bgp \in { << >>, << "Enabled" >>, << "Disabled" >> },
          hostPorts \in { << >>, << "Enabled" >>, << "Disabled" >> },
          pools \in VppPools :
         instance =
           [DefaultInstance EXCEPT
               !.variant = variant,
               !.cni = cni,
               !.calicoNetwork =
                   << [DefaultCalicoNetwork EXCEPT
                          !.linuxDataplane = dp,
                          !.bgp = bgp,
                          !.hostPorts = hostPorts,
                          !.ipPools = pools] >>]
    /\ ad = DefaultAd
    /\ verdicts = << >>
    /\ validated = << >>

VppSpec == VppInit /\ [][ValNext]_vars

VppDataplane == instance.calicoNetwork[1].linuxDataplane = << "VPP" >>

VppVariantOK == instance.variant = "Calico"
VppCNIOK == instance.cni[1].type = "Calico"
VppBGPOK == instance.calicoNetwork[1].bgp = << "Enabled" >>
VppHostPortsOK == instance.calicoNetwork[1].hostPorts # << "Disabled" >>

(* C25: with the VPP dataplane the VPP rules pass exactly when the variant *)
(* is Calico, the CNI is Calico, BGP is Enabled and HostPorts is not       *)
(* Disabled; a document that breaks one of the four is refused, and when   *)
(* the pool rules pass it is refused with the first of the four it breaks. *)
C25_VPP ==
    \A i \in DOMAIN verdicts :
        VppDataplane =>
          LET cn == instance.calicoNetwork[1]
              poolsOK == PoolRules(instance, cn, 1) = Nil
          IN /\ VPPRules(instance, cn) = Nil
                   <=> VppVariantOK /\ VppCNIOK /\ VppBGPOK /\ VppHostPortsOK
             /\ verdicts[i] = Nil
                   => VppVariantOK /\ VppCNIOK /\ VppBGPOK /\ VppHostPortsOK
             /\ poolsOK /\ ~VppVariantOK => verdicts[i] = Err("VPPVariant")
             /\ poolsOK /\ VppVariantOK /\ ~VppCNIOK => verdicts[i] = Err("VPPCNI")
             /\ poolsOK /\ VppVariantOK /\ VppCNIOK /\ ~VppBGPOK
                   => verdicts[i] = Err("VPPRequiresBGP")
             /\ poolsOK /\ VppVariantOK /\ VppCNIOK /\ VppBGPOK /\ ~VppHostPortsOK
                   => verdicts[i] = Err("VPPHostPorts")
             /\ VppVariantOK /\ VppCNIOK /\ VppBGPOK /\ VppHostPortsOK
                   => verdicts[i] = Nil

C25_Witness ==
    /\ VppDataplane
    /\ VppVariantOK /\ VppCNIOK /\ VppBGPOK /\ ~VppHostPortsOK
    /\ verdicts = << Err("VPPHostPorts") >>

(* Documents that vary in what the Windows rules read, validated while    *)
(* the service endpoint, a package variable the validator reads, changes.  *)
Endpoints == [ host : { "", "10.0.0.1" }, port : { "", "6443" } ]

FactsInit ==
    /\ ProcessIdle
    /\ \E windows \in { "Disabled", "HNS" },
          cni \in { << [type |-> "Calico", ipam |-> "Calico"] >>,
                    << [type |-> "GKE", ipam |-> "HostLocal"] >> },
          serviceCIDRs \in { << >>, << IPv4CIDR >> },
          windowsNodes \in { << >>, << "vxlan" >> },
          endpoint \in Endpoints :
         instance =
           [DefaultInstance EXCEPT
               !.cni = cni,
               !.calicoNetwork =
                   << [DefaultCalicoNetwork EXCEPT !.windowsDataplane = windows] >>,
               !.serviceCIDRs = serviceCIDRs,
               !.windowsNodes = windowsNodes,
               !.endpoint = endpoint]
    /\ ad = DefaultAd
    /\ verdicts = << >>
    /\ validated = << >>

(* k8sapi.Endpoint is set between two calls. *)
EndpointChanges ==
    /\ \E e \in Endpoints \ { instance.endpoint } :
         instance' = [instance EXCEPT !.endpoint = e]
    /\ UNCHANGED <<ad, verdicts, validated>>
    /\ UNCHANGED <<mainVars, watcherVars, envVars, flagVars>>

FactsNext == ValidateInstance \/ EndpointChanges

FactsSpec == FactsInit /\ [][FactsNext]_vars

C26_FactsMatter ==
    /\ Len(verdicts) = 2
    /\ verdicts[1] = Err("WindowsEndpoint")
    /\ verdicts[2] = Nil

(* C28: in the bounded wait a query that fails with an error other than   *)
(* NotFound is followed by the sleep and the next poll: it neither ends    *)
(* the wait nor counts as a retry.  The goroutine leaves the wait only on  *)
(* NotFound or when the deadline has passed, and the time waited never     *)
(* exceeds the deadline by more than one late sleep.                       *)
C28_ErrorsDoNotEndWait ==
    /\ [][(wpc = "Wait" /\ qres' = "Error")
             => (wpc' = "WaitSleep" /\ retries' = retries /\ ~ctxCancelled')]_vars
    /\ [][(wpc \in WaitStates /\ wpc' \in (WaitStates \cup { "done" }))
             => (retries' = retries)]_vars
    /\ [][(wpc \in WaitStates /\ wpc' = "done")
             => ((qres' = "NotFound" /\ "Complete" \in log')
                   \/ (TimedOut /\ "TimedOut" \in log'))]_vars
    /\ [](wpc \in WaitStates => waited <= GracePeriod + WaitSleep + MaxLate - 1)

C28_Witness ==
    /\ wpc = "WaitSleep"
    /\ qres = "Error"
    /\ waited >= GracePeriod

PastWaitUntilActive == pc \in After("WaitUntilActive") \cup { "Serving" }

(* C29 as stated: whatever the run mode, nothing is done to the cluster    *)
(* before WaitUntilActive has returned.  The two job modes never call it.  *)
C29_ActiveBeforeMutation ==
    ("SgSetup" \in calls \/ deletes # << >> \/ crds \/ registered)
        => "WaitUntilActive" \in calls

(* C29: CRD installation and controller registration happen only in the   *)
(* normal mode, after WaitUntilActive has returned with this instance      *)
(* active; the security group setup and the deletes of the pre-delete hook *)
(* happen only in their job modes, without WaitUntilActive being called,   *)
(* and main never goes past them.                                          *)
C29_ActiveBeforeMutationInNormalMode ==
    /\ (crds \/ registered)
          => /\ ~sgSetup /\ ~preDelete
             /\ "WaitUntilActive" \in calls
             /\ PastWaitUntilActive
             /\ active
    /\ "SgSetup" \in calls
          => sgSetup /\ pc = "SgSetup" /\ exited /\ "WaitUntilActive" \notin calls
    /\ deletes # << >>
          => /\ preDelete /\ ~sgSetup
             /\ pc = "PreDelete"
             /\ "WaitUntilActive" \notin calls
    /\ (sgSetup \/ preDelete) => pc \in { "GetConfig", "SgSetup", "PreDelete" }

C29_Witness ==
    /\ preDelete
    /\ ~active
    /\ Len(deletes) = Len(HookObjects)
    /\ deletes[3] = [obj |-> "Installation", res |-> "ok"]
    /\ exited
    /\ exitCode = 0

(* C30: the hook deletes Whisker, Goldmane, Installation and APIServer in  *)
(* that order; a delete that fails with an error other than NotFound is    *)
(* its last one and makes the process exit with 1; the hook returns nil,   *)
(* and the process exits with 0, only after all four deletes succeeded or  *)
(* found nothing and a query found the Installation absent; once the five  *)
(* minutes have passed the next iteration returns the timeout error.       *)
C30_PreDeleteHook ==
    /\ [](/\ Len(deletes) <= Len(HookObjects)
          /\ \A i \in DOMAIN deletes :
               /\ deletes[i].obj = HookObjects[i]
               /\ deletes[i].res = "Error"
                    => i = Len(deletes) /\ hookRes = "DeleteError")
    /\ [](hookRes = "DeleteError"
             => /\ deletes[Len(deletes)].res = "Error"
                /\ exited /\ exitCode = 1)
    /\ [](hookRes = "nil"
             => /\ Len(deletes) = Len(HookObjects)
                /\ \A i \in DOMAIN deletes : deletes[i].res \in { "ok", "NotFound" }
                /\ exited /\ exitCode = 0)
    /\ [][(hookRes' = "nil" /\ hookRes # "nil")
             => (hpc = "Wait" /\ installation = "absent" /\ hwaited < HookTimeout)]_vars
    /\ [](hookRes = "Timeout"
             => /\ hwaited >= HookTimeout
                /\ Len(deletes) = Len(HookObjects)
                /\ exited /\ exitCode = 1)
    /\ [](hwaited <= HookTimeout)
    /\ [][(hpc = "Wait" /\ hwaited >= HookTimeout /\ exited')
             => hookRes' = "Timeout"]_vars
    /\ [](preDelete /\ exited /\ pc = "PreDelete"
             => (exitCode = 0 <=> hookRes = "nil"))

C30_Witness ==
    /\ hookRes = "Timeout"
    /\ deletes[1].res = "NotFound"
    /\ deletes[3].res = "ok"
    /\ installation = "deleting"

C30_DeleteErrorWitness ==
    /\ hookRes = "DeleteError"
    /\ Len(deletes) = 2

====
